---------------------------- MODULE Spec2Model ----------------------------
(* Trust-aggregation core of the accessibility-report service:             *)
(* the vote ledger (data/votes.js), the duplicate-flag ledger              *)
(* (data/duplicateFlags.js), the cached aggregate blocks on report records *)
(* (data/reports.js), the report routes (routes/reports.js) and the admin  *)
(* merge / hide / unhide operations (data/reportsAdmin.js).                *)
(*                                                                         *)
(* Every `await` on a storage call is one atomic step of the model; the    *)
(* synchronous code between two awaits belongs to the step that follows    *)
(* the first await.  Reputation and weights are counted in units of 0.05   *)
(* (so 1.0 is 20 units); timestamps are values of a logical clock, 0       *)
(* standing for a missing date.                                            *)
EXTENDS Integers, Sequences, FiniteSets, TLC

---------------------------------------------------------------------------
(* Bounds of the model *)

\* timestamps of the rows present when a run starts are 1..MaxTime
MaxTime == 2
\* how many times the admin may re-invoke one merge (after a crash or a success)
MaxRetries == 1
\* how far a reputation moves away from its first value, in units of 0.05
MaxDrift == 1

\* Program constants
DEFAULT_WEIGHT == 20
REP_MAX == 2000
REP_DELTA_PER_UPVOTE == 1
MAX_CANDIDATES == 5

Users == {"u1", "u2"}
\* "A", "B", "C" are reports on one target, "D" is on another target,
\* "Z" is an id no report carries.
SameTargetIds == {"A", "B", "C"}
ReportIds == SameTargetIds \cup {"D"}
AllIds == ReportIds \cup {"Z"}
MergeProcs == {"m1", "m2"}
ReqProcs == {"q1", "q2"}

\* the order of report ids as strings ("A" < "B" < ... < "J" < "Z")
Rank(r) == CASE r = "A" -> 1 [] r = "B" -> 2 [] r = "C" -> 3 [] r = "D" -> 4
             [] r = "E" -> 5 [] r = "F" -> 6 [] r = "G" -> 7 [] r = "H" -> 8
             [] r = "I" -> 9 [] r = "J" -> 10 [] OTHER -> 11
URank(u) == IF u = "u1" THEN 1 ELSE 2
IdPool == 1..(2 * Cardinality(AllIds) * Cardinality(Users))

VARIABLES
  reports,   \* collection 'reports': reportId -> document
  votes,     \* collection 'votes': a set of documents
  flags,     \* collection 'duplicate_flags': a set of documents
  users,     \* collection 'users': userId -> reputation
  clock,     \* the value `new Date()` returns now
  mg,        \* invocations of mergeDuplicateReports: proc -> locals
  rq         \* requests to the report routes: proc -> locals

vars == <<reports, votes, flags, users, clock, mg, rq>>

---------------------------------------------------------------------------
(* Documents *)

NoRow == [id |-> 0, reportId |-> "", userId |-> "", vote |-> 0, weight |-> 0,
          createdAt |-> 0, updatedAt |-> 0]

ZeroVotesBlock == [upVote |-> 0, downVote |-> 0, voteCount |-> 0, score |-> 0,
                   rawScore |-> 0, weightedScore |-> 0, upWeight |-> 0, downWeight |-> 0]

NoDupBlock == [present |-> FALSE, flagCount |-> 0, weightTotal |-> 0,
               topCandidateReportId |-> "", topCandidateCount |-> 0,
               topCandidateWeight |-> 0]

NoReport == [exists |-> FALSE, target |-> "", status |-> "", mergedInto |-> "",
             mergedFrom |-> <<>>, author |-> "", votes |-> ZeroVotesBlock,
             duplicateFlags |-> NoDupBlock]

TargetOf(r) == IF r \in SameTargetIds THEN "t1" ELSE "t2"

\* the document createReport inserts
NewReport(r, a) == [exists |-> TRUE, target |-> TargetOf(r), status |-> "open",
                    mergedInto |-> "", mergedFrom |-> <<>>, author |-> a,
                    votes |-> ZeroVotesBlock, duplicateFlags |-> NoDupBlock]

\* reportsCol.findOne({ reportId: id })
FindReport(id) == IF id \in DOMAIN reports THEN reports[id] ELSE NoReport

RowsOf(rows, r) == {x \in rows : x.reportId = r}

\* col.findOne({ reportId, userId })
FindOne(rows, r, u) ==
  LET hit == {x \in rows : x.reportId = r /\ x.userId = u}
  IN IF hit = {} THEN NoRow ELSE CHOOSE x \in hit : \A y \in hit : x.id <= y.id

FindById(rows, id) ==
  LET hit == {x \in rows : x.id = id}
  IN IF hit = {} THEN NoRow ELSE CHOOSE x \in hit : TRUE

\* (mutant) the collection without its unique index
NoUniqueIndex(rows, id, r, u) == FALSE

\* the unique index { reportId: 1, userId: 1 }: would a write that leaves the
\* document `id` with key (r, u) collide with another document (E11000)?
DuplicateKey(rows, id, r, u) ==
  \E x \in rows : x.id # id /\ x.reportId = r /\ x.userId = u

\* ids held by in-flight merge invocations (scanned documents)
RECURSIVE SeqIds(_)
SeqIds(s) == IF s = <<>> THEN {} ELSE {Head(s).id} \cup SeqIds(Tail(s))

HeldIds == UNION {SeqIds(mg[p].dupVotes) \cup {mg[p].ex.id} : p \in MergeProcs}

\* a new ObjectId: one no document carries and no request still refers to
FreshId(rows) ==
  CHOOSE i \in IdPool : /\ i \notin {x.id : x \in rows} \cup HeldIds
                        /\ \A j \in IdPool : j < i => j \in {x.id : x \in rows} \cup HeldIds

\* cursor order of find().toArray(): by _id
RECURSIVE SortById(_)
SortById(S) ==
  IF S = {} THEN <<>>
  ELSE LET x == CHOOSE x \in S : \A y \in S : x.id <= y.id
       IN <<x>> \o SortById(S \ {x})


---------------------------------------------------------------------------
(* Vote aggregates: data/votes.js getTotalVotes, data/reports.js updateReportVotes *)

Max(a, b) == IF a >= b THEN a ELSE b
Min(a, b) == IF a <= b THEN a ELSE b

RECURSIVE SumWeight(_)
SumWeight(S) ==
  IF S = {} THEN 0
  ELSE LET x == CHOOSE x \in S : TRUE IN x.weight + SumWeight(S \ {x})

\* (mutant) every row counted with weight 1
getTotalVotesUnweighted(rows, r) ==
  LET docs == RowsOf(rows, r)
      upVotes == Cardinality({x \in docs : x.vote = 1})
      downVotes == Cardinality({x \in docs : x.vote = -1})
  IN [upVotes |-> upVotes, downVotes |-> downVotes, voteCount |-> upVotes + downVotes,
      score |-> upVotes - downVotes, rawScore |-> upVotes - downVotes,
      uWeight |-> upVotes * DEFAULT_WEIGHT, dWeight |-> downVotes * DEFAULT_WEIGHT,
      weightedScore |-> (upVotes - downVotes) * DEFAULT_WEIGHT]

\* getTotalVotes(reportId): one scan of the ledger
getTotalVotes(rows, r) ==
  LET docs == RowsOf(rows, r)
      ups == {x \in docs : x.vote = 1}
      downs == {x \in docs : x.vote = -1}
      upVotes == Cardinality(ups)
      downVotes == Cardinality(downs)
      uWeight == SumWeight(ups)
      dWeight == SumWeight(downs)
  IN [upVotes |-> upVotes, downVotes |-> downVotes, voteCount |-> upVotes + downVotes,
      score |-> upVotes - downVotes, rawScore |-> upVotes - downVotes,
      uWeight |-> uWeight, dWeight |-> dWeight, weightedScore |-> uWeight - dWeight]

ZeroTotals == [upVotes |-> 0, downVotes |-> 0, voteCount |-> 0, score |-> 0,
               rawScore |-> 0, uWeight |-> 0, dWeight |-> 0, weightedScore |-> 0]

\* (mutant) votes.score set from the unweighted score
VotesBlockRawScore(total) ==
  [upVote |-> Max(0, total.upVotes), downVote |-> Max(0, total.downVotes),
   voteCount |-> Max(0, total.voteCount),
   score |-> total.rawScore,
   rawScore |-> total.rawScore,
   weightedScore |-> total.weightedScore,
   upWeight |-> Max(0, total.uWeight),
   downWeight |-> Max(0, total.dWeight)]

\* the votes block updateReportVotes $sets from a totals object
VotesBlock(total) ==
  LET upVote == Max(0, total.upVotes)
      downVote == Max(0, total.downVotes)
  IN [upVote |-> upVote, downVote |-> downVote,
      voteCount |-> Max(0, total.voteCount),
      score |-> total.weightedScore,
      rawScore |-> total.rawScore,
      weightedScore |-> total.weightedScore,
      upWeight |-> Max(0, total.uWeight),
      downWeight |-> Max(0, total.dWeight)]

\* updateReportVotes(reportId, total): the reports collection afterwards
\* (unchanged when no report carries the id: the caller gets 404)
updateReportVotes(reps, r, total) ==
  IF r \in DOMAIN reps
  THEN [reps EXCEPT ![r].votes = VotesBlock(total)]
  ELSE reps

---------------------------------------------------------------------------
(* data/votes.js: castVote, removeVote, getUserVoteForReport *)

\* (mutant) the reputation itself, with no minimum
WeightNoFloor(rep) == rep

\* getVoteWeightForUser / getWeightForUser: Math.max(DEFAULT_WEIGHT, reputation)
WeightOf(rep) == Max(DEFAULT_WEIGHT, rep)

\* (mutant) weight among the $setOnInsert fields
CastUpsertedKeepWeight(rows, r, u, v, w, now) ==
  LET old == FindOne(rows, r, u)
  IN IF old.id # 0
     THEN {IF x.id = old.id THEN [x EXCEPT !.vote = v, !.updatedAt = now]
           ELSE x : x \in rows}
     ELSE rows \cup {[id |-> FreshId(rows), reportId |-> r, userId |-> u, vote |-> v,
                      weight |-> w, createdAt |-> now, updatedAt |-> now]}

\* votes.updateOne({reportId, userId}, {$set: {vote, weight, updatedAt},
\*                 $setOnInsert: {reportId, userId, createdAt}}, {upsert: true})
CastUpserted(rows, r, u, v, w, now) ==
  LET old == FindOne(rows, r, u)
  IN IF old.id # 0
     THEN {IF x.id = old.id THEN [x EXCEPT !.vote = v, !.weight = w, !.updatedAt = now]
           ELSE x : x \in rows}
     ELSE rows \cup {[id |-> FreshId(rows), reportId |-> r, userId |-> u, vote |-> v,
                      weight |-> w, createdAt |-> now, updatedAt |-> now]}

\* (mutant) deleteMany({reportId})
VoteRemovedOfReport(rows, r, u) == {x \in rows : x.reportId # r}

\* votes.deleteOne({reportId, userId})
VoteRemoved(rows, r, u) == {x \in rows : x.id # FindOne(rows, r, u).id}

\* getUserVoteForReport(reportId, userId): 1, -1 or 0
getUserVoteForReport(rows, r, u) ==
  LET doc == FindOne(rows, r, u)
  IN IF doc.id = 0 THEN 0 ELSE IF doc.vote = 1 THEN 1 ELSE IF doc.vote = -1 THEN -1 ELSE 0

---------------------------------------------------------------------------
(* data/users.js: adjustReputation *)

\* reputations: 1.0 and 10.0
InitUsers == [u \in Users |-> IF u = "u1" THEN DEFAULT_WEIGHT ELSE 10 * DEFAULT_WEIGHT]

\* (mutant) a write of the value computed from the reputation the run started with
adjustReputationFromRead(us, u, d, max) ==
  IF u \in DOMAIN us
  THEN [us EXCEPT ![u] = IF InitUsers[u] + d > max THEN max
                         ELSE IF InitUsers[u] + d < 0 THEN 0 ELSE InitUsers[u] + d]
  ELSE us

\* the pipeline update: $min: [max, $max: [MIN_REPUTATION, reputation + d]]
adjustReputation(us, u, d, max) ==
  IF u \in DOMAIN us THEN [us EXCEPT ![u] = Min(max, Max(0, @ + d))] ELSE us

---------------------------------------------------------------------------
(* data/duplicateFlags.js *)

\* canonicalReportId was not among the params
Omitted == "<omitted>"
\* a stored flag without the canonicalReportId field
Absent == "<absent>"

\* String(v).trim() on the values a client sends
Trim(v) == IF v \in {" ", "  "} THEN "" ELSE IF v = " B " THEN "B" ELSE v

\* normalizeOptionalCanonicalReportId(canonicalReportId)
normalizeOptionalCanonicalReportId(c) == IF c = Omitted THEN Omitted ELSE Trim(c)

\* the 24-hex _id of a report document
OidOf(r) == CASE r = "A" -> "0a" [] r = "B" -> "0b" [] r = "C" -> "0c" [] OTHER -> "0d"

\* getReportByReportId(id).reportId: by reportId first, then by _id; "" when the
\* lookup throws 404
StableIdOf(reps, input) ==
  IF input \in DOMAIN reps THEN input
  ELSE IF \E r \in DOMAIN reps : OidOf(r) = input
       THEN CHOOSE r \in DOMAIN reps : OidOf(r) = input
       ELSE ""

NoFlag == [id |-> 0, reportId |-> "", userId |-> "", canonicalReportId |-> Absent,
           weight |-> 0, createdAt |-> 0, updatedAt |-> 0]

\* (mutant) setDoc with canonicalReportId set on every call
SetDocAlways(x, provided, canonicalStableId, now) ==
  [x EXCEPT !.updatedAt = now, !.canonicalReportId = canonicalStableId]

\* setDoc applied to a stored flag: updatedAt always, canonicalReportId when provided
SetDoc(x, provided, canonicalStableId, now) ==
  IF provided
  THEN [x EXCEPT !.updatedAt = now, !.canonicalReportId = canonicalStableId]
  ELSE [x EXCEPT !.updatedAt = now]

\* existing flag: col.updateOne({reportId, userId}, {$set: setDoc})
FlagUpdated(rows, r, u, provided, canonicalStableId, now) ==
  LET old == FindOne(rows, r, u)
  IN {IF x.id = old.id THEN SetDoc(x, provided, canonicalStableId, now) ELSE x : x \in rows}

\* (mutant) weight among the $set fields of the upsert
FlagUpsertedSetWeight(rows, r, u, provided, canonicalStableId, w, now) ==
  LET old == FindOne(rows, r, u)
  IN IF old.id # 0
     THEN {IF x.id = old.id
           THEN [SetDoc(x, provided, canonicalStableId, now) EXCEPT !.weight = w]
           ELSE x : x \in rows}
     ELSE rows \cup {SetDoc([id |-> FreshId(rows), reportId |-> r, userId |-> u,
                             canonicalReportId |-> Absent, weight |-> w,
                             createdAt |-> now, updatedAt |-> now],
                            provided, canonicalStableId, now)}

\* (mutant) an insert in place of the upsert
FlagInserted(rows, r, u, provided, canonicalStableId, w, now) ==
  rows \cup {SetDoc([id |-> FreshId(rows), reportId |-> r, userId |-> u,
                     canonicalReportId |-> Absent, weight |-> w,
                     createdAt |-> now, updatedAt |-> now],
                    provided, canonicalStableId, now)}

\* no flag seen: col.updateOne(..., {$set: setDoc, $setOnInsert: {reportId, userId,
\*                                   weight, createdAt}}, {upsert: true})
FlagUpserted(rows, r, u, provided, canonicalStableId, w, now) ==
  IF FindOne(rows, r, u).id # 0
  THEN FlagUpdated(rows, r, u, provided, canonicalStableId, now)
  ELSE rows \cup {SetDoc([id |-> FreshId(rows), reportId |-> r, userId |-> u,
                          canonicalReportId |-> Absent, weight |-> w,
                          createdAt |-> now, updatedAt |-> now],
                         provided, canonicalStableId, now)}

\* col.deleteOne({reportId, userId})
FlagRemoved(rows, r, u) == {x \in rows : x.id # FindOne(rows, r, u).id}

\* sameTarget(a, b)
sameTarget(a, b) == a.target = b.target

\* (mutant) the candidates facet without its $match: '' is a group as well
CandidatesOfAll(docs) ==
  {[canonicalReportId |-> c,
    count |-> Cardinality({x \in docs : x.canonicalReportId = c}),
    weight |-> SumWeight({x \in docs : x.canonicalReportId = c})] :
     c \in {x.canonicalReportId : x \in docs} \ {Absent}}

\* the candidates facet: one group for each non-empty canonicalReportId
Candidates(docs) ==
  {[canonicalReportId |-> c,
    count |-> Cardinality({x \in docs : x.canonicalReportId = c}),
    weight |-> SumWeight({x \in docs : x.canonicalReportId = c})] :
     c \in {x.canonicalReportId : x \in docs} \ {Absent, ""}}

\* $sort: { weight: -1, count: -1, _id: 1 }
Before(c, e) ==
  \/ c.weight > e.weight
  \/ c.weight = e.weight /\ c.count > e.count
  \/ c.weight = e.weight /\ c.count = e.count /\ Rank(c.canonicalReportId) <= Rank(e.canonicalReportId)

RECURSIVE Ranked(_)
Ranked(S) ==
  IF S = {} THEN <<>>
  ELSE LET c == CHOOSE c \in S : \A e \in S : Before(c, e)
       IN <<c>> \o Ranked(S \ {c})

\* $limit
Limit(s, n) == IF Len(s) <= n THEN s ELSE SubSeq(s, 1, n)

\* getDuplicateTotals(reportId)
getDuplicateTotals(rows, r) ==
  LET docs == RowsOf(rows, r)
      candidates == Limit(Ranked(Candidates(docs)), MAX_CANDIDATES)
  IN [flagCount |-> Cardinality(docs),
      weightTotal |-> SumWeight(docs),
      topCandidateReportId |-> IF candidates # <<>> THEN candidates[1].canonicalReportId ELSE "",
      topCandidateCount |-> IF candidates # <<>> THEN candidates[1].count ELSE 0,
      topCandidateWeight |-> IF candidates # <<>> THEN candidates[1].weight ELSE 0,
      candidates |-> candidates]

ZeroDupTotals == [flagCount |-> 0, weightTotal |-> 0, topCandidateReportId |-> "",
                  topCandidateCount |-> 0, topCandidateWeight |-> 0, candidates |-> <<>>]

\* getUserDuplicateFlag(reportId, userId)
getUserDuplicateFlag(rows, r, u) ==
  LET doc == FindOne(rows, r, u)
  IN IF doc.id = 0 THEN [flagged |-> FALSE, canonicalReportId |-> ""]
     ELSE [flagged |-> TRUE,
           canonicalReportId |-> IF doc.canonicalReportId = Absent THEN ""
                                 ELSE doc.canonicalReportId]

\* the duplicateFlags block updateReportDuplicateFlags $sets from a totals object
DupBlock(totals) ==
  [present |-> TRUE,
   flagCount |-> Max(0, totals.flagCount),
   weightTotal |-> Max(0, totals.weightTotal),
   topCandidateReportId |-> totals.topCandidateReportId,
   topCandidateCount |-> Max(0, totals.topCandidateCount),
   topCandidateWeight |-> Max(0, totals.topCandidateWeight)]

\* updateReportDuplicateFlags(reportId, totals): the reports collection afterwards
updateReportDuplicateFlags(reps, r, totals) ==
  IF r \in DOMAIN reps
  THEN [reps EXCEPT ![r].duplicateFlags = DupBlock(totals)]
  ELSE reps

---------------------------------------------------------------------------
(* The state every run starts from *)

\* who created which report (createdBy.userId)
AuthorOf(r) == IF r = "A" THEN "u1" ELSE "u2"

InitReports == [r \in ReportIds |-> NewReport(r, AuthorOf(r))]


\* the reputation user u had at time t, which castVote snapshotted as the weight
WeightAt(u, t) == DEFAULT_WEIGHT + (t - 1) * URank(u)

\* the row a castVote({r, u, v}) at time t inserted
CastRow(r, u, v, t) ==
  [id |-> (Rank(r) - 1) * Cardinality(Users) + URank(u), reportId |-> r, userId |-> u,
   vote |-> v, weight |-> WeightAt(u, t), createdAt |-> t, updatedAt |-> t]

NoCast == [vote |-> 0, t |-> 0]
Casts == {NoCast} \cup [vote : {1, -1}, t : 1..MaxTime]

\* ledgers left by earlier castVote calls on the reports rs: one optional row for
\* each (report, user)
Ledger(f) == {CastRow(q[1], q[2], f[q].vote, f[q].t) : q \in {x \in DOMAIN f : f[x].vote # 0}}

Ledgers(rs, us) == {Ledger(f) : f \in [rs \X us -> Casts]}

---------------------------------------------------------------------------
(* data/reportsAdmin.js *)

\* toDateSafe(v): a missing value is the epoch
toDateSafe(v) == IF v = 0 THEN 0 ELSE v

\* a || b on timestamps
OrElse(a, b) == IF a # 0 THEN a ELSE b

IdleMerge == [pc |-> "idle", keep |-> "", dup |-> "", keepDoc |-> NoReport, now |-> 0,
              dupVotes |-> <<>>, i |-> 0, ex |-> NoRow,
              moved |-> 0, overwritten |-> 0, deleted |-> 0, invalid |-> 0,
              status |-> 0, totals |-> ZeroTotals, retries |-> 0,
              pre |-> {}, preReports |-> InitReports]

Running(p) == mg[p].pc \notin {"idle", "done", "failed", "crashed"}

Fail(p, st) == mg' = [mg EXCEPT ![p].pc = "failed", ![p].status = st]

\* the dup-side document the loop is at
Dv(p) == mg[p].dupVotes[mg[p].i]

\* (mutant) the loop left after its first document
ContinueOnce(m) == [m EXCEPT !.pc = "hide", !.ex = NoRow]

\* `continue`: on to the next scanned document, or out of the loop
Continue(m) ==
  IF m.i < Len(m.dupVotes)
  THEN [m EXCEPT !.pc = "loop", !.i = m.i + 1, !.ex = NoRow]
  ELSE [m EXCEPT !.pc = "hide", !.ex = NoRow]

\* mergeDuplicateReports(keepReportId, dupReportId) is called: normalizeReportId,
\* then the keepId === dupId test, all before the first await
MergeInvoke(p, k, d) ==
  /\ mg[p].pc = "idle"
  /\ LET m == [IdleMerge EXCEPT !.keep = k, !.dup = d, !.pre = votes,
                                !.preReports = reports, !.retries = mg[p].retries]
     IN mg' = [mg EXCEPT ![p] = IF k = d
                                 THEN [m EXCEPT !.pc = "failed", !.status = 400]
                                 ELSE [m EXCEPT !.pc = "loadKeep"]]
  /\ UNCHANGED <<reports, votes, flags, users, clock, rq>>

\* const keep = await reportsCol.findOne({ reportId: keepId })
MergeLoadKeep(p) ==
  /\ mg[p].pc = "loadKeep"
  /\ LET keep == FindReport(mg[p].keep)
     IN IF ~keep.exists
        THEN Fail(p, 404)
        ELSE mg' = [mg EXCEPT ![p].pc = "loadDup", ![p].keepDoc = keep]
  /\ UNCHANGED <<reports, votes, flags, users, clock, rq>>

\* (mutant) the guardrails without the test of keep.mergedInto
MergeGuardNoKeepTest(keep, dup, keepId) ==
  IF keep.target # dup.target THEN 400
  ELSE IF dup.mergedInto # "" /\ dup.mergedInto # keepId THEN 409
  ELSE 0

\* the precondition tests that follow the load of dup
MergeGuard(keep, dup, keepId) ==
  IF keep.target # dup.target THEN 400
  ELSE IF dup.mergedInto # "" /\ dup.mergedInto # keepId THEN 409
  ELSE IF keep.mergedInto # "" THEN 409
  ELSE 0

\* const dup = await reportsCol.findOne({ reportId: dupId }), the guardrails, now
MergeLoadDup(p) ==
  /\ mg[p].pc = "loadDup"
  /\ LET dup == FindReport(mg[p].dup)
         st == MergeGuard(mg[p].keepDoc, dup, mg[p].keep)
     IN IF ~dup.exists THEN Fail(p, 404)
        ELSE IF st # 0 THEN Fail(p, st)
        ELSE mg' = [mg EXCEPT ![p].pc = "scan", ![p].now = clock]
  /\ UNCHANGED <<reports, votes, flags, users, clock, rq>>

\* const dupVotes = await votesCol.find({ reportId: dupId }).toArray()
MergeScan(p) ==
  /\ mg[p].pc = "scan"
  /\ LET found == SortById(RowsOf(votes, mg[p].dup))
         m == [mg[p] EXCEPT !.dupVotes = found, !.i = 0]
     IN mg' = [mg EXCEPT ![p] = Continue(m)]
  /\ UNCHANGED <<reports, votes, flags, users, clock, rq>>

ValidRow(dv) == dv.userId # "" /\ dv.vote \in {1, -1}

\* (mutant) the dup-side vote also wins a tie
DupWinsOnTie(dv, ex) ==
  toDateSafe(OrElse(dv.updatedAt, dv.createdAt)) >= toDateSafe(OrElse(ex.updatedAt, ex.createdAt))

\* (mutant) the comparison the wrong way round
DupWinsReversed(dv, ex) ==
  toDateSafe(OrElse(dv.updatedAt, dv.createdAt)) < toDateSafe(OrElse(ex.updatedAt, ex.createdAt))

\* the conflict policy: the dup-side vote wins only when strictly more recent
DupWins(dv, ex) ==
  toDateSafe(OrElse(dv.updatedAt, dv.createdAt)) > toDateSafe(OrElse(ex.updatedAt, ex.createdAt))

\* top of the loop body: an invalid document is deleted; otherwise
\* const existing = await votesCol.findOne({ reportId: keepId, userId })
MergeFindExisting(p) ==
  /\ mg[p].pc = "loop"
  /\ LET dv == Dv(p)
         existing == FindOne(votes, mg[p].keep, dv.userId)
     IN IF ~ValidRow(dv)
        THEN /\ votes' = {x \in votes : x.id # dv.id}
             /\ mg' = [mg EXCEPT ![p] = Continue([mg[p] EXCEPT !.invalid = @ + 1])]
        ELSE /\ votes' = votes
             /\ mg' = [mg EXCEPT ![p].ex = existing,
                                 ![p].pc = IF existing.id = 0 THEN "rehome"
                                           ELSE IF DupWins(dv, existing) THEN "overwrite"
                                           ELSE "delete"]
  /\ UNCHANGED <<reports, flags, users, clock, rq>>

\* (mutant) the $set without reportId
RehomedInPlace(rows, dv, keepId, now) ==
  {IF x.id = dv.id THEN [x EXCEPT !.updatedAt = OrElse(dv.updatedAt, now)] ELSE x : x \in rows}

\* await votesCol.updateOne({ _id: dv._id }, { $set: { reportId: keepId, updatedAt } })
\* the ledger after the write
Rehomed(rows, dv, keepId, now) ==
  {IF x.id = dv.id
   THEN [x EXCEPT !.reportId = keepId, !.updatedAt = OrElse(dv.updatedAt, now)]
   ELSE x : x \in rows}

\* the re-homing write: it moves the document, or fails with E11000 and is caught
MergeRehome(p) ==
  /\ mg[p].pc = "rehome"
  /\ LET dv == Dv(p)
         cur == FindById(votes, dv.id)
     IN IF cur.id # 0 /\ DuplicateKey(votes, dv.id, mg[p].keep, cur.userId)
        THEN /\ votes' = votes
             /\ mg' = [mg EXCEPT ![p].pc = "recheck"]
        ELSE /\ votes' = Rehomed(votes, dv, mg[p].keep, mg[p].now)
             /\ mg' = [mg EXCEPT ![p] = Continue([mg[p] EXCEPT !.moved = @ + 1])]
  /\ UNCHANGED <<reports, flags, users, clock, rq>>

\* catch (e.code === 11000): const existing2 = await votesCol.findOne(...)
MergeRecheck(p) ==
  /\ mg[p].pc = "recheck"
  /\ LET dv == Dv(p)
         existing2 == FindOne(votes, mg[p].keep, dv.userId)
     IN mg' = [mg EXCEPT ![p] =
                 IF existing2.id = 0 THEN Continue(mg[p])
                 ELSE [mg[p] EXCEPT !.ex = existing2,
                                    !.pc = IF DupWins(dv, existing2) THEN "overwrite"
                                           ELSE "delete"]]
  /\ UNCHANGED <<reports, votes, flags, users, clock, rq>>

\* await votesCol.updateOne({ _id: existing._id }, { $set: { vote, weight, updatedAt } })
Overwritten(rows, dv, exId, now) ==
  {IF x.id = exId
   THEN [x EXCEPT !.vote = dv.vote, !.weight = dv.weight,
                  !.updatedAt = OrElse(dv.updatedAt, now)]
   ELSE x : x \in rows}

MergeOverwrite(p) ==
  /\ mg[p].pc = "overwrite"
  /\ votes' = Overwritten(votes, Dv(p), mg[p].ex.id, mg[p].now)
  /\ mg' = [mg EXCEPT ![p].pc = "delete", ![p].overwritten = @ + 1]
  /\ UNCHANGED <<reports, flags, users, clock, rq>>

\* await votesCol.deleteOne({ _id: dv._id })
MergeDelete(p) ==
  /\ mg[p].pc = "delete"
  /\ votes' = {x \in votes : x.id # Dv(p).id}
  /\ mg' = [mg EXCEPT ![p] = Continue([mg[p] EXCEPT !.deleted = @ + 1])]
  /\ UNCHANGED <<reports, flags, users, clock, rq>>

\* 2) await reportsCol.updateOne({ reportId: dupId }, { $set: { status, mergedInto } })
HideDup(reps, dupId, keepId) ==
  IF dupId \in DOMAIN reps
  THEN [reps EXCEPT ![dupId].status = "hidden", ![dupId].mergedInto = keepId]
  ELSE reps

MergeHide(p) ==
  /\ mg[p].pc = "hide"
  /\ reports' = HideDup(reports, mg[p].dup, mg[p].keep)
  /\ mg' = [mg EXCEPT ![p].pc = "annotate"]
  /\ UNCHANGED <<votes, flags, users, clock, rq>>

\* hideReport(reportId): $set status 'hidden'
hideReport(reps, r) ==
  IF r \in DOMAIN reps THEN [reps EXCEPT ![r].status = "hidden"] ELSE reps

\* unhideReport(reportId): $set status 'open'
unhideReport(reps, r) ==
  IF r \in DOMAIN reps THEN [reps EXCEPT ![r].status = "open"] ELSE reps

\* the admin hides a report
Hide(r) ==
  /\ reports' = hideReport(reports, r)
  /\ reports' # reports
  /\ UNCHANGED <<votes, flags, users, clock, mg, rq>>

\* the admin restores a report
Unhide(r) ==
  /\ reports' = unhideReport(reports, r)
  /\ reports' # reports
  /\ UNCHANGED <<votes, flags, users, clock, mg, rq>>

\* (mutant) $push in place of $addToSet
AnnotateKeepPush(reps, keepId, dupId) ==
  IF keepId \in DOMAIN reps
  THEN [reps EXCEPT ![keepId].mergedFrom = Append(@, dupId)]
  ELSE reps

\* 3) await reportsCol.updateOne({ reportId: keepId }, { $addToSet: { mergedFrom: dupId } })
AnnotateKeep(reps, keepId, dupId) ==
  IF keepId \in DOMAIN reps
  THEN [reps EXCEPT ![keepId].mergedFrom =
          IF \E j \in 1..Len(@) : @[j] = dupId THEN @ ELSE Append(@, dupId)]
  ELSE reps

MergeAnnotate(p) ==
  /\ mg[p].pc = "annotate"
  /\ reports' = AnnotateKeep(reports, mg[p].keep, mg[p].dup)
  /\ mg' = [mg EXCEPT ![p].pc = "totals"]
  /\ UNCHANGED <<votes, flags, users, clock, rq>>

\* 4) const totals = await getTotalVotes(keepId)
MergeTotals(p) ==
  /\ mg[p].pc = "totals"
  /\ mg' = [mg EXCEPT ![p].pc = "cache", ![p].totals = getTotalVotes(votes, mg[p].keep)]
  /\ UNCHANGED <<reports, votes, flags, users, clock, rq>>

\* await updateReportVotes(keepId, totals); return the summary
MergeCache(p) ==
  /\ mg[p].pc = "cache"
  /\ reports' = updateReportVotes(reports, mg[p].keep, mg[p].totals)
  /\ IF mg[p].keep \in DOMAIN reports
     THEN mg' = [mg EXCEPT ![p].pc = "done"]
     ELSE Fail(p, 404)
  /\ UNCHANGED <<votes, flags, users, clock, rq>>

---------------------------------------------------------------------------
(* routes/reports.js *)

\* normalizeTotals(totals): score becomes the weighted score
normalizeTotals(t) ==
  [upVotes |-> Max(0, t.upVotes), downVotes |-> Max(0, t.downVotes),
   voteCount |-> Max(0, t.voteCount), score |-> t.weightedScore,
   rawScore |-> t.rawScore, uWeight |-> t.uWeight, dWeight |-> t.dWeight,
   weightedScore |-> t.weightedScore]

\* normalizeDuplicateTotals(totals)
normalizeDuplicateTotals(t) ==
  [flagCount |-> Max(0, t.flagCount), weightTotal |-> Max(0, t.weightTotal),
   topCandidateReportId |-> t.topCandidateReportId,
   topCandidateCount |-> Max(0, t.topCandidateCount),
   topCandidateWeight |-> Max(0, t.topCandidateWeight),
   candidates |-> t.candidates]

\* voteToRepDelta(vote)
voteToRepDelta(v) ==
  IF v = 1 THEN REP_DELTA_PER_UPVOTE ELSE IF v = -1 THEN 0 - REP_DELTA_PER_UPVOTE ELSE 0

IdleReq == [pc |-> "idle", kind |-> "", rid |-> "", uid |-> "", vote |-> 0,
            canon |-> Omitted, author |-> "", prevVote |-> 0, now |-> 0, rep |-> 0, weight |-> 0,
            totals |-> ZeroTotals, dtotals |-> ZeroDupTotals, existing |-> NoFlag,
            canonStable |-> "", ret |-> "", updated |-> 0, adjustFailed |-> FALSE,
            errCode |-> 0,
            status |-> 0, myVote |-> 0,
            myFlag |-> [flagged |-> FALSE, canonicalReportId |-> ""]]

ReqFail(q, st) == rq' = [rq EXCEPT ![q].pc = "failed", ![q].status = st]

\* a logged-in user sends POST/DELETE /:reportId/vote or /:reportId/duplicate
ReqBegin(q, kind, r, u, v, c) ==
  /\ rq[q].pc = "idle"
  /\ rq' = [rq EXCEPT ![q] = [IdleReq EXCEPT !.pc = "resolve", !.kind = kind, !.rid = r,
                                             !.uid = u, !.vote = v, !.canon = c]]
  /\ UNCHANGED <<reports, votes, flags, users, clock, mg>>

\* const { report, rid } = await resolveReportParam(req.params.reportId)
ReqResolve(q) ==
  /\ rq[q].pc = "resolve"
  /\ LET report == FindReport(rq[q].rid)
     IN IF ~report.exists THEN ReqFail(q, 404)
        ELSE rq' = [rq EXCEPT ![q].author = report.author,
                              ![q].pc = CASE rq[q].kind = "flag" -> "fbase"
                                          [] rq[q].kind = "unflag" -> "fremove"
                                          [] OTHER -> "prev"]
  /\ UNCHANGED <<reports, votes, flags, users, clock, mg>>

\* const prevVote = await getUserVoteForReport(rid, userId); castVote reads the clock
ReqPrevVote(q) ==
  /\ rq[q].pc = "prev"
  /\ rq' = [rq EXCEPT ![q].prevVote = getUserVoteForReport(votes, rq[q].rid, rq[q].uid),
                      ![q].now = clock,
                      ![q].pc = IF rq[q].kind = "vote" THEN "weight" ELSE "remove"]
  /\ UNCHANGED <<reports, votes, flags, users, clock, mg>>

\* castVote: const weight = await getVoteWeightForUser(uID)
ReqWeight(q) ==
  /\ rq[q].pc = "weight"
  /\ IF rq[q].uid \in DOMAIN users
     THEN rq' = [rq EXCEPT ![q].rep = users[rq[q].uid],
                           ![q].weight = WeightOf(users[rq[q].uid]), ![q].pc = "upsert"]
     ELSE ReqFail(q, 404)
  /\ UNCHANGED <<reports, votes, flags, users, clock, mg>>

\* castVote: await votes.updateOne(..., { upsert: true })
ReqUpsert(q) ==
  /\ rq[q].pc = "upsert"
  /\ votes' = CastUpserted(votes, rq[q].rid, rq[q].uid, rq[q].vote, rq[q].weight, rq[q].now)
  /\ rq' = [rq EXCEPT ![q].pc = "totals"]
  /\ UNCHANGED <<reports, flags, users, clock, mg>>

\* removeVote: await votes.deleteOne({ reportId, userId })
ReqRemove(q) ==
  /\ rq[q].pc = "remove"
  /\ votes' = VoteRemoved(votes, rq[q].rid, rq[q].uid)
  /\ rq' = [rq EXCEPT ![q].pc = "totals"]
  /\ UNCHANGED <<reports, flags, users, clock, mg>>

\* const totals = normalizeTotals(await getTotalVotes(rid))
ReqTotals(q) ==
  /\ rq[q].pc = "totals"
  /\ rq' = [rq EXCEPT ![q].totals = normalizeTotals(getTotalVotes(votes, rq[q].rid)),
                      ![q].pc = "cache"]
  /\ UNCHANGED <<reports, votes, flags, users, clock, mg>>

\* the change of the author's reputation the route asks for
RepDelta(m) ==
  IF m.kind = "vote" THEN voteToRepDelta(m.vote) - voteToRepDelta(m.prevVote)
  ELSE 0 - voteToRepDelta(m.prevVote)

\* await updateReportVotes(rid, totals); then the author test
ReqCache(q) ==
  /\ rq[q].pc = "cache"
  /\ reports' = updateReportVotes(reports, rq[q].rid, rq[q].totals)
  /\ IF rq[q].rid \notin DOMAIN reports THEN ReqFail(q, 404)
     ELSE rq' = [rq EXCEPT ![q].pc =
                   IF rq[q].author # "" /\ rq[q].author # rq[q].uid /\ RepDelta(rq[q]) # 0
                   THEN "adjust" ELSE "myvote"]
  /\ UNCHANGED <<votes, flags, users, clock, mg>>

\* await bestEffortAdjustReputation(authorId, delta, req)
ReqAdjust(q) ==
  /\ rq[q].pc = "adjust"
  /\ users' = adjustReputation(users, rq[q].author, RepDelta(rq[q]), REP_MAX)
  /\ rq' = [rq EXCEPT ![q].pc = "myvote",
                      ![q].updated = IF rq[q].author \in DOMAIN users
                                     THEN users'[rq[q].author] ELSE 0]
  /\ UNCHANGED <<reports, votes, flags, clock, mg>>

\* (mutant) the error of adjustReputation passed on to next(err)
ReqAdjustRethrows(q) ==
  /\ rq[q].pc = "adjust"
  /\ rq' = [rq EXCEPT ![q].pc = "failed", ![q].status = 500, ![q].adjustFailed = TRUE]
  /\ UNCHANGED <<reports, votes, flags, users, clock, mg>>

\* adjustReputation throws (storage error, user gone): catch (_) { } and the
\* handler goes on
ReqAdjustThrows(q) ==
  /\ rq[q].pc = "adjust"
  /\ rq' = [rq EXCEPT ![q].pc = "myvote", ![q].adjustFailed = TRUE]
  /\ UNCHANGED <<reports, votes, flags, users, clock, mg>>

\* const myVote = await getUserVoteForReport(rid, userId); res.json(...)
ReqMyVote(q) ==
  /\ rq[q].pc = "myvote"
  /\ rq' = [rq EXCEPT ![q].myVote = getUserVoteForReport(votes, rq[q].rid, rq[q].uid),
                      ![q].pc = "done"]
  /\ UNCHANGED <<reports, votes, flags, users, clock, mg>>

\* flagDuplicate: await resolveStableReportId(params.reportId)
ReqFlagBase(q) ==
  /\ rq[q].pc = "fbase"
  /\ IF ~FindReport(rq[q].rid).exists THEN ReqFail(q, 404)
     ELSE IF normalizeOptionalCanonicalReportId(rq[q].canon) \notin {Omitted, ""}
     THEN rq' = [rq EXCEPT ![q].pc = "fcanon"]
     ELSE rq' = [rq EXCEPT ![q].pc = "fexisting", ![q].now = clock, ![q].canonStable = ""]
  /\ UNCHANGED <<reports, votes, flags, users, clock, mg>>

\* flagDuplicate: await resolveStableReportId(cInput), then the two tests
ReqFlagCanon(q) ==
  /\ rq[q].pc = "fcanon"
  /\ LET stableId == StableIdOf(reports, normalizeOptionalCanonicalReportId(rq[q].canon))
         canonicalReport == FindReport(stableId)
     IN IF ~canonicalReport.exists THEN ReqFail(q, 404)
        ELSE IF stableId = rq[q].rid THEN ReqFail(q, 400)
        ELSE IF ~sameTarget(FindReport(rq[q].rid), canonicalReport) THEN ReqFail(q, 400)
        ELSE rq' = [rq EXCEPT ![q].pc = "fexisting", ![q].now = clock,
                              ![q].canonStable = stableId]
  /\ UNCHANGED <<reports, votes, flags, users, clock, mg>>

\* flagDuplicate: const existing = await col.findOne({ reportId, userId })
ReqFlagExisting(q) ==
  /\ rq[q].pc = "fexisting"
  /\ LET existing == FindOne(flags, rq[q].rid, rq[q].uid)
     IN rq' = [rq EXCEPT ![q].existing = existing,
                         ![q].pc = IF existing.id # 0 THEN "fupdate" ELSE "fweight"]
  /\ UNCHANGED <<reports, votes, flags, users, clock, mg>>

\* flagDuplicate: if (existing) await col.updateOne(..., { $set: setDoc })
ReqFlagUpdate(q) ==
  /\ rq[q].pc = "fupdate"
  /\ flags' = FlagUpdated(flags, rq[q].rid, rq[q].uid, rq[q].canon # Omitted,
                          rq[q].canonStable, rq[q].now)
  /\ rq' = [rq EXCEPT ![q].pc = "ftotals",
                      ![q].ret = IF rq[q].canon # Omitted THEN rq[q].canonStable
                                 ELSE IF rq[q].existing.canonicalReportId = Absent THEN ""
                                 ELSE Trim(rq[q].existing.canonicalReportId)]
  /\ UNCHANGED <<reports, votes, users, clock, mg>>

\* flagDuplicate: else const weight = await getWeightForUser(uID)
ReqFlagWeight(q) ==
  /\ rq[q].pc = "fweight"
  /\ IF rq[q].uid \in DOMAIN users
     THEN rq' = [rq EXCEPT ![q].rep = users[rq[q].uid],
                           ![q].weight = WeightOf(users[rq[q].uid]), ![q].pc = "fupsert"]
     ELSE ReqFail(q, 404)
  /\ UNCHANGED <<reports, votes, flags, users, clock, mg>>

\* flagDuplicate: await col.updateOne(..., { upsert: true })
ReqFlagUpsert(q) ==
  /\ rq[q].pc = "fupsert"
  /\ flags' = FlagUpserted(flags, rq[q].rid, rq[q].uid, rq[q].canon # Omitted,
                           rq[q].canonStable, rq[q].weight, rq[q].now)
  /\ rq' = [rq EXCEPT ![q].pc = "ftotals", ![q].ret = rq[q].canonStable]
  /\ UNCHANGED <<reports, votes, users, clock, mg>>

\* await removeDuplicateFlag(rid, userId)
ReqFlagRemove(q) ==
  /\ rq[q].pc = "fremove"
  /\ flags' = FlagRemoved(flags, rq[q].rid, rq[q].uid)
  /\ rq' = [rq EXCEPT ![q].pc = "ftotals"]
  /\ UNCHANGED <<reports, votes, users, clock, mg>>

\* const totals = normalizeDuplicateTotals(await getDuplicateTotals(rid))
ReqFlagTotals(q) ==
  /\ rq[q].pc = "ftotals"
  /\ rq' = [rq EXCEPT ![q].dtotals = normalizeDuplicateTotals(getDuplicateTotals(flags, rq[q].rid)),
                      ![q].pc = "fcache"]
  /\ UNCHANGED <<reports, votes, flags, users, clock, mg>>

\* await updateReportDuplicateFlags(rid, totals)
ReqFlagCache(q) ==
  /\ rq[q].pc = "fcache"
  /\ reports' = updateReportDuplicateFlags(reports, rq[q].rid, rq[q].dtotals)
  /\ IF rq[q].rid \notin DOMAIN reports THEN ReqFail(q, 404)
     ELSE rq' = [rq EXCEPT ![q].pc = "myflag"]
  /\ UNCHANGED <<votes, flags, users, clock, mg>>

\* const myFlag = await getUserDuplicateFlag(rid, userId); res.json(...)
ReqMyFlag(q) ==
  /\ rq[q].pc = "myflag"
  /\ rq' = [rq EXCEPT ![q].myFlag = getUserDuplicateFlag(flags, rq[q].rid, rq[q].uid),
                      ![q].pc = "done"]
  /\ UNCHANGED <<reports, votes, flags, users, clock, mg>>

\* res.json(...) or next(err): the response is sent and the handler is over
ReqRespond(q) ==
  /\ rq[q].pc \in {"done", "failed"}
  /\ rq' = [rq EXCEPT ![q] = IdleReq]
  /\ UNCHANGED <<reports, votes, flags, users, clock, mg>>

---------------------------------------------------------------------------
(* Merges run one after the other by the admin, no other writer *)

NoneRunning == \A p \in MergeProcs : ~Running(p)

SeqInit ==
  /\ reports = InitReports
  /\ votes \in {l \in Ledgers({"A", "B"}, Users) :
                  \A x \in l : x.userId = "u2" =>
                     /\ x.vote = (IF x.reportId = "A" THEN 1 ELSE -1)
                     /\ x.updatedAt = 1}
  /\ flags = {}
  /\ users = InitUsers
  /\ clock = MaxTime + 1
  /\ mg = [p \in MergeProcs |-> IdleMerge]
  /\ rq = [q \in ReqProcs |-> IdleReq]

SeqInvoke(p, k, d) ==
  /\ NoneRunning
  /\ p = "m2" => mg["m1"].pc = "done"
  /\ MergeInvoke(p, k, d)

SeqNext ==
  \/ \E p \in MergeProcs, k \in AllIds, d \in AllIds : SeqInvoke(p, k, d)
  \/ \E p \in MergeProcs : MergeLoadKeep(p)
  \/ \E p \in MergeProcs : MergeLoadDup(p)
  \/ \E p \in MergeProcs : MergeScan(p)
  \/ \E p \in MergeProcs : MergeFindExisting(p)
  \/ \E p \in MergeProcs : MergeRehome(p)
  \/ \E p \in MergeProcs : MergeOverwrite(p)
  \/ \E p \in MergeProcs : MergeDelete(p)
  \/ \E p \in MergeProcs : MergeHide(p)
  \/ \E p \in MergeProcs : MergeAnnotate(p)
  \/ \E p \in MergeProcs : MergeTotals(p)
  \/ \E p \in MergeProcs : MergeCache(p)

SpecSeq == SeqInit /\ [][SeqNext]_vars


---------------------------------------------------------------------------
(* Properties of one merge with no concurrent writer (SpecSeq) *)

\* the invocation whose effect is the last one applied to the store
Latest(p) == p = "m2" \/ mg["m2"].pc = "idle"

Content(S) == {<<x.userId, x.vote, x.weight>> : x \in S}
UsersIn(S) == {x.userId : x \in S}

PreKeep(p) == RowsOf(mg[p].pre, mg[p].keep)
PreDup(p) == RowsOf(mg[p].pre, mg[p].dup)

\* C2: merge conservation.  When the keep and dup ledgers share no user, a finished
\* merge leaves under keep exactly the (userId, vote, weight) rows that were under
\* keep or under dup, leaves nothing under dup, and reports moved = |V_B| with the
\* three other counters at 0.
C2_MergeConservation ==
  \A p \in MergeProcs :
    (mg[p].pc = "done" /\ Latest(p) /\ UsersIn(PreKeep(p)) \cap UsersIn(PreDup(p)) = {}) =>
      /\ Content(RowsOf(votes, mg[p].keep)) = Content(PreKeep(p)) \cup Content(PreDup(p))
      /\ Cardinality(RowsOf(votes, mg[p].keep))
           = Cardinality(PreKeep(p)) + Cardinality(PreDup(p))
      /\ RowsOf(votes, mg[p].dup) = {}
      /\ mg[p].moved = Cardinality(PreDup(p))
      /\ mg[p].overwritten = 0 /\ mg[p].deleted = 0 /\ mg[p].invalid = 0

C2_Witness ==
  \E p \in MergeProcs :
    /\ mg[p].pc = "done" /\ Latest(p)
    /\ UsersIn(PreKeep(p)) \cap UsersIn(PreDup(p)) = {}
    /\ PreKeep(p) # {} /\ PreDup(p) # {}
    /\ mg[p].moved = 1

\* C3: merge conflict resolution.  For a user with a vote on both reports, after the
\* merge the user has one vote on keep and none on dup; it carries the value and
\* weight of the dup-side vote when that one was updated later, and it is the
\* keep-side row unchanged when the keep-side vote was updated later.
C3_ConflictResolution ==
  \A p \in MergeProcs : \A u \in Users :
    LET a == FindOne(mg[p].pre, mg[p].keep, u)
        b == FindOne(mg[p].pre, mg[p].dup, u)
        now == {x \in votes : x.reportId = mg[p].keep /\ x.userId = u}
    IN (mg[p].pc = "done" /\ Latest(p) /\ a.id # 0 /\ b.id # 0) =>
         /\ FindOne(votes, mg[p].dup, u).id = 0
         /\ b.updatedAt > a.updatedAt =>
              /\ Cardinality(now) = 1
              /\ \A x \in now : x.vote = b.vote /\ x.weight = b.weight
         /\ b.updatedAt < a.updatedAt => now = {a}

C3_Witness ==
  \E p \in MergeProcs : \E u \in Users :
    LET a == FindOne(mg[p].pre, mg[p].keep, u)
        b == FindOne(mg[p].pre, mg[p].dup, u)
    IN /\ mg[p].pc = "done" /\ Latest(p) /\ a.id # 0 /\ b.id # 0
       /\ b.updatedAt > a.updatedAt /\ b.vote # a.vote /\ b.weight # a.weight
       /\ mg[p].overwritten = 1

\* C22: ties go to the keep side.  When a user's dup-side vote and keep-side vote
\* carry the same update timestamp, the merge leaves the keep-side row as it was
\* (same document, value and weight) and deletes the dup-side row.
C22_TieKeepsKeepSide ==
  \A p \in MergeProcs : \A u \in Users :
    LET a == FindOne(mg[p].pre, mg[p].keep, u)
        b == FindOne(mg[p].pre, mg[p].dup, u)
    IN (mg[p].pc = "done" /\ Latest(p) /\ a.id # 0 /\ b.id # 0
          /\ toDateSafe(b.updatedAt) = toDateSafe(a.updatedAt)) =>
         /\ {x \in votes : x.reportId = mg[p].keep /\ x.userId = u} = {a}
         /\ \A x \in votes : x.id # b.id
         /\ FindOne(votes, mg[p].dup, u).id = 0

\* a merge is done over two votes of one user with equal timestamps and opposite values
C22_Witness ==
  \E p \in MergeProcs : \E u \in Users :
    LET a == FindOne(mg[p].pre, mg[p].keep, u)
        b == FindOne(mg[p].pre, mg[p].dup, u)
    IN /\ mg[p].pc = "done" /\ Latest(p) /\ a.id # 0 /\ b.id # 0
       /\ b.updatedAt = a.updatedAt /\ b.vote # a.vote
       /\ mg[p].deleted >= 1 /\ FindOne(votes, mg[p].keep, u).vote = a.vote

\* the users with a vote on keep and a vote on dup when merge p began, and those of
\* them whose dup-side vote was updated later
Conflicting(p) ==
  {u \in Users : FindOne(mg[p].pre, mg[p].keep, u).id # 0 /\ FindOne(mg[p].pre, mg[p].dup, u).id # 0}
DupWinners(p) ==
  {u \in Conflicting(p) : DupWins(FindOne(mg[p].pre, mg[p].dup, u),
                                  FindOne(mg[p].pre, mg[p].keep, u))}

\* C27: the summary counters of a merge without concurrent writers.  Each dup-side
\* vote whose user has a keep-side vote adds one to exactly one counter: to
\* overwritten when the dup-side vote won the comparison, to deleted otherwise; only
\* rows without userId or with a vote outside {+1, -1} add to invalid.
C27_OneCounterPerConflict ==
  \A p \in MergeProcs :
    (mg[p].pc = "done" /\ Latest(p)) =>
      /\ mg[p].overwritten = Cardinality(DupWinners(p))
      /\ mg[p].deleted = Cardinality(Conflicting(p) \ DupWinners(p))
      /\ mg[p].overwritten + mg[p].deleted = Cardinality(Conflicting(p))
      /\ mg[p].invalid = 0

\* C28: the mergedInto relation has no chain.  In every state reached by successful
\* merges there are no reports X, Y with Y.mergedInto = X while X.mergedInto is set.
C28_NoMergeChain ==
  \A x \in DOMAIN reports : \A y \in DOMAIN reports :
    reports[y].mergedInto = x => reports[x].mergedInto = ""

\* the status the first violated precondition gives, 0 when all hold
Refusal(k, d, reps) ==
  LET keep == IF k \in DOMAIN reps THEN reps[k] ELSE NoReport
      dup == IF d \in DOMAIN reps THEN reps[d] ELSE NoReport
  IN IF k = d THEN 400
     ELSE IF ~keep.exists \/ ~dup.exists THEN 404
     ELSE IF keep.target # dup.target THEN 400
     ELSE IF dup.mergedInto \notin {"", k} THEN 409
     ELSE IF keep.mergedInto # "" THEN 409
     ELSE 0

\* C8: a merge called with keep = dup (400), a missing report (404), reports on
\* different targets (400), a dup already merged into another report (409) or a keep
\* that is itself merged (409) never gets past its checks, ends failed with that
\* status, and writes nothing to the vote ledger or to the report records.
C8_PreconditionsRefuse ==
  \A p \in MergeProcs :
    LET st == Refusal(mg[p].keep, mg[p].dup, mg[p].preReports)
    IN (mg[p].pc # "idle" /\ Latest(p) /\ st # 0) =>
         /\ mg[p].pc \in {"loadKeep", "loadDup", "failed"}
         /\ mg[p].pc = "failed" => mg[p].status = st
         /\ votes = mg[p].pre
         /\ reports = mg[p].preReports

C8_Witness ==
  /\ mg["m2"].pc = "failed" /\ mg["m2"].status = 409
  /\ reports[mg["m2"].keep].mergedInto # ""
  /\ reports[mg["m2"].dup].mergedInto = ""
  /\ votes # {}


---------------------------------------------------------------------------
(* One merge that may crash between storage calls and be re-invoked (SpecRetry) *)

\* the server process dies while the merge awaits a storage call
MergeCrash(p) ==
  /\ Running(p)
  /\ mg' = [mg EXCEPT ![p].pc = "crashed"]
  /\ UNCHANGED <<reports, votes, flags, users, clock, rq>>

\* the admin submits the same merge again
MergeReinvoke(p) ==
  /\ mg[p].pc \in {"crashed", "done"}
  /\ mg[p].retries < MaxRetries
  /\ mg' = [mg EXCEPT ![p] = [IdleMerge EXCEPT !.pc = "loadKeep",
                                 !.keep = mg[p].keep, !.dup = mg[p].dup,
                                 !.pre = mg[p].pre, !.preReports = mg[p].preReports,
                                 !.retries = mg[p].retries + 1]]
  /\ UNCHANGED <<reports, votes, flags, users, clock, rq>>

RetryInit == SeqInit

RetryNext ==
  \/ \E k \in AllIds, d \in AllIds : MergeInvoke("m1", k, d)
  \/ MergeLoadKeep("m1")
  \/ MergeLoadDup("m1")
  \/ MergeScan("m1")
  \/ MergeFindExisting("m1")
  \/ MergeRehome("m1")
  \/ MergeOverwrite("m1")
  \/ MergeDelete("m1")
  \/ MergeHide("m1")
  \/ MergeAnnotate("m1")
  \/ MergeTotals("m1")
  \/ MergeCache("m1")
  \/ MergeCrash("m1")
  \/ MergeReinvoke("m1")

SpecRetry == RetryInit /\ [][RetryNext]_vars

\* the vote of user u that one uninterrupted merge leaves under keep: the dup-side
\* row when it is alone or strictly more recent, else the keep-side row
MergedVote(pre, k, d, u) ==
  LET a == FindOne(pre, k, u)
      b == FindOne(pre, d, u)
  IN IF b.id # 0 /\ (a.id = 0 \/ b.updatedAt > a.updatedAt) THEN b ELSE a

MergedContent(pre, k, d) ==
  Content({MergedVote(pre, k, d, u) : u \in Users} \ {NoRow})

\* C9: a merge whose preconditions held when it was first called, and that was
\* re-invoked after a crash or after a success, does not fail, and when it is done
\* the store is the one an uninterrupted merge leaves: the same keep-side votes, no
\* vote under dup, the other ledgers as before, dup hidden with mergedInto = keep,
\* and dup once in keep.mergedFrom.
C9_RetryConverges ==
  LET m == mg["m1"]
  IN (m.pc # "idle" /\ Refusal(m.keep, m.dup, m.preReports) = 0) =>
       /\ m.pc # "failed"
       /\ m.pc = "done" =>
            /\ Content(RowsOf(votes, m.keep)) = MergedContent(m.pre, m.keep, m.dup)
            /\ Cardinality(RowsOf(votes, m.keep)) = Cardinality(MergedContent(m.pre, m.keep, m.dup))
            /\ RowsOf(votes, m.dup) = {}
            /\ \A r \in ReportIds \ {m.keep, m.dup} : RowsOf(votes, r) = RowsOf(m.pre, r)
            /\ reports[m.dup].status = "hidden"
            /\ reports[m.dup].mergedInto = m.keep
            /\ reports[m.keep].mergedFrom = <<m.dup>>
            /\ reports[m.keep].mergedInto = ""

\* a merge that crashed after it had overwritten a keep-side vote, and is done
C9_Witness ==
  LET m == mg["m1"]
  IN /\ m.pc = "done" /\ m.retries = 1
     /\ PreDup("m1") # {}
     /\ \E u \in Users : LET a == FindOne(m.pre, m.keep, u)
                             b == FindOne(m.pre, m.dup, u)
                         IN a.id # 0 /\ b.id # 0 /\ b.updatedAt > a.updatedAt
     /\ m.overwritten = 0 /\ m.deleted = 1


---------------------------------------------------------------------------
(* Merges one after the other, any storage call of the vote migration may throw
   (SpecAbort) *)

\* where a merge is between the scan of the dup-side votes and the end of the loop
MigrationPcs == {"scan", "loop", "rehome", "recheck", "overwrite", "delete"}

\* a votesCol call of the migration rejects: the error leaves mergeDuplicateReports
MergeStorageError(p) ==
  /\ mg[p].pc \in MigrationPcs
  /\ Fail(p, 500)
  /\ UNCHANGED <<reports, votes, flags, users, clock, rq>>

\* the admin calls the next merge when the one before has returned or thrown
AbortInvoke(p, k, d) ==
  /\ NoneRunning
  /\ p = "m2" => mg["m1"].pc \in {"done", "failed"}
  /\ MergeInvoke(p, k, d)

AbortNext ==
  \/ \E p \in MergeProcs, k \in SameTargetIds, d \in SameTargetIds : AbortInvoke(p, k, d)
  \/ \E p \in MergeProcs : MergeLoadKeep(p)
  \/ \E p \in MergeProcs : MergeLoadDup(p)
  \/ \E p \in MergeProcs : MergeScan(p)
  \/ \E p \in MergeProcs : MergeFindExisting(p)
  \/ \E p \in MergeProcs : MergeRehome(p)
  \/ \E p \in MergeProcs : MergeOverwrite(p)
  \/ \E p \in MergeProcs : MergeDelete(p)
  \/ \E p \in MergeProcs : MergeHide(p)
  \/ \E p \in MergeProcs : MergeAnnotate(p)
  \/ \E p \in MergeProcs : MergeTotals(p)
  \/ \E p \in MergeProcs : MergeCache(p)
  \/ \E p \in MergeProcs : MergeStorageError(p)

SpecAbort == SeqInit /\ [][AbortNext]_vars

\* the status fields of the two reports are those the merge p found
StatusFieldsUntouched(p) ==
  /\ reports[mg[p].dup].status = mg[p].preReports[mg[p].dup].status
  /\ reports[mg[p].dup].mergedInto = mg[p].preReports[mg[p].dup].mergedInto
  /\ reports[mg[p].keep].mergedFrom = mg[p].preReports[mg[p].keep].mergedFrom

\* C23: report status fields are written after the vote migration.  While a merge is
\* in its vote migration the status and mergedInto of dup and the mergedFrom of keep
\* are as the merge found them; when it is about to hide dup every scanned dup-side
\* row has been processed (none is left under dup); a merge that a storage error
\* aborted during the migration has left the three fields unchanged.
C23_StatusAfterMigration ==
  \A p \in MergeProcs :
    Latest(p) =>
      /\ mg[p].pc \in MigrationPcs \cup {"hide"} => StatusFieldsUntouched(p)
      /\ mg[p].pc = "hide" =>
           /\ mg[p].i = Len(mg[p].dupVotes)
           /\ \A j \in 1..Len(mg[p].dupVotes) :
                 FindById(votes, mg[p].dupVotes[j].id).reportId # mg[p].dup
           /\ mg[p].moved + mg[p].deleted + mg[p].invalid = Len(mg[p].dupVotes)
      /\ (mg[p].pc = "failed" /\ mg[p].status = 500) => StatusFieldsUntouched(p)

\* a merge aborted after it had migrated one of two dup-side rows: dup is still open
C23_Witness ==
  \E p \in MergeProcs :
    /\ Latest(p) /\ mg[p].pc = "failed" /\ mg[p].status = 500
    /\ Len(mg[p].dupVotes) = 2 /\ mg[p].moved + mg[p].deleted = 1
    /\ reports[mg[p].dup].status = "open" /\ reports[mg[p].dup].mergedInto = ""
    /\ reports[mg[p].keep].mergedFrom = <<>>

---------------------------------------------------------------------------
(* Vote and duplicate-flag requests served one at a time (SpecRoutes) *)

\* the reports the requests name: an existing one and an unknown id
RouteTargets == {"A", "Z"}

RoutesInit ==
  /\ reports = InitReports
  /\ votes = {}
  /\ flags = {}
  /\ users = InitUsers
  /\ clock = 1
  /\ mg = [p \in MergeProcs |-> IdleMerge]
  /\ rq = [q \in ReqProcs |-> IdleReq]

RoutesNext ==
  \/ \E r \in RouteTargets, u \in Users, v \in {1, -1} : ReqBegin("q1", "vote", r, u, v, Omitted)
  \/ \E r \in RouteTargets, u \in Users : ReqBegin("q1", "unvote", r, u, 0, Omitted)
  \/ \E r \in RouteTargets, u \in Users, c \in {Omitted, ""} \cup AllIds :
        ReqBegin("q1", "flag", r, u, 0, c)
  \/ \E r \in RouteTargets, u \in Users : ReqBegin("q1", "unflag", r, u, 0, Omitted)
  \/ ReqResolve("q1")
  \/ ReqPrevVote("q1")
  \/ ReqWeight("q1")
  \/ ReqUpsert("q1")
  \/ ReqRemove("q1")
  \/ ReqTotals("q1")
  \/ ReqCache("q1")
  \/ ReqAdjust("q1")
  \/ ReqMyVote("q1")
  \/ ReqFlagBase("q1")
  \/ ReqFlagCanon("q1")
  \/ ReqFlagExisting("q1")
  \/ ReqFlagUpdate("q1")
  \/ ReqFlagWeight("q1")
  \/ ReqFlagUpsert("q1")
  \/ ReqFlagRemove("q1")
  \/ ReqFlagTotals("q1")
  \/ ReqFlagCache("q1")
  \/ ReqMyFlag("q1")
  \/ ReqRespond("q1")

SpecRoutes == RoutesInit /\ [][RoutesNext]_vars

Quiet(q) == rq[q].pc \in {"idle", "done", "failed"}

\* C10: aggregate reproducibility.  Whenever no request is being served, the votes
\* block and the duplicateFlags block cached on each report equal the totals a fresh
\* scan of the report's ledgers gives: counts, raw score, the weights, and
\* votes.weightedScore = votes.score = uWeight - dWeight.
C10_CacheMatchesLedger ==
  Quiet("q1") =>
    \A r \in ReportIds :
      LET t == getTotalVotes(votes, r)
          d == getDuplicateTotals(flags, r)
          c == reports[r].votes
          f == reports[r].duplicateFlags
      IN /\ c.upVote = t.upVotes /\ c.downVote = t.downVotes
         /\ c.voteCount = t.voteCount /\ c.rawScore = t.rawScore
         /\ c.upWeight = t.uWeight /\ c.downWeight = t.dWeight
         /\ c.weightedScore = t.uWeight - t.dWeight
         /\ c.score = t.uWeight - t.dWeight
         /\ f.flagCount = d.flagCount /\ f.weightTotal = d.weightTotal
         /\ f.topCandidateReportId = d.topCandidateReportId
         /\ f.topCandidateCount = d.topCandidateCount
         /\ f.topCandidateWeight = d.topCandidateWeight

\* two votes of different weight and two flags naming different candidates
C10_Witness ==
  /\ Quiet("q1") /\ rq["q1"].pc = "done"
  /\ reports["A"].votes.upVote = 1 /\ reports["A"].votes.downVote = 1
  /\ reports["A"].votes.score # reports["A"].votes.rawScore
  /\ reports["A"].duplicateFlags.flagCount = 2
  /\ reports["A"].duplicateFlags.topCandidateCount = 1
  /\ reports["A"].duplicateFlags.topCandidateReportId = "C"


\* the weight user u adds to the side v of report r
SideWeight(r, u, v) ==
  LET x == FindOne(votes, r, u) IN IF x.id # 0 /\ x.vote = v THEN x.weight ELSE 0

\* C20: getTotalVotes.  For every content of the ledger and every report: upVotes and
\* downVotes count the +1 and the -1 rows, voteCount is their sum and rawScore their
\* difference, uWeight and dWeight are the sums of the weights of the +1 and of the
\* -1 rows, weightedScore = uWeight - dWeight; the totals a request has just read
\* carry these values.
C20_TotalsOfLedger ==
  /\ \A r \in ReportIds :
       LET t == getTotalVotes(votes, r)
           up == {u \in Users : FindOne(votes, r, u).vote = 1}
           down == {u \in Users : FindOne(votes, r, u).vote = -1}
       IN /\ t.upVotes = Cardinality(up) /\ t.downVotes = Cardinality(down)
          /\ t.voteCount = Cardinality(up) + Cardinality(down)
          /\ t.rawScore = Cardinality(up) - Cardinality(down)
          /\ t.uWeight = SideWeight(r, "u1", 1) + SideWeight(r, "u2", 1)
          /\ t.dWeight = SideWeight(r, "u1", -1) + SideWeight(r, "u2", -1)
          /\ t.weightedScore = t.uWeight - t.dWeight
  /\ rq["q1"].pc = "cache" =>
       LET t == rq["q1"].totals
           r == rq["q1"].rid
       IN /\ t.upVotes = Cardinality({u \in Users : FindOne(votes, r, u).vote = 1})
          /\ t.downVotes = Cardinality({u \in Users : FindOne(votes, r, u).vote = -1})
          /\ t.rawScore = t.upVotes - t.downVotes
          /\ t.uWeight = SideWeight(r, "u1", 1) + SideWeight(r, "u2", 1)
          /\ t.dWeight = SideWeight(r, "u1", -1) + SideWeight(r, "u2", -1)
          /\ t.weightedScore = t.uWeight - t.dWeight

\* a +1 of weight 1 and a -1 of weight 10: rawScore 0, weightedScore -9
C20_Witness ==
  /\ rq["q1"].pc = "cache" /\ rq["q1"].rid = "A"
  /\ FindOne(votes, "A", "u1").vote = 1 /\ FindOne(votes, "A", "u1").weight = DEFAULT_WEIGHT
  /\ FindOne(votes, "A", "u2").vote = -1
  /\ FindOne(votes, "A", "u2").weight = 10 * DEFAULT_WEIGHT
  /\ rq["q1"].totals.upVotes = 1 /\ rq["q1"].totals.downVotes = 1
  /\ rq["q1"].totals.rawScore = 0
  /\ rq["q1"].totals.weightedScore = 0 - 9 * DEFAULT_WEIGHT

---------------------------------------------------------------------------
(* One merge while users cast and remove votes (SpecConc) *)

ConcInit ==
  /\ reports = InitReports
  /\ votes \in Ledgers({"B"}, {"u1"})
  /\ flags = {}
  /\ users = InitUsers
  /\ clock = MaxTime + 1
  /\ mg = [p \in MergeProcs |-> IdleMerge]
  /\ rq = [q \in ReqProcs |-> IdleReq]

\* each worker serves one request, the second one after the first has answered
ConcBegin(q, kind, r, v) ==
  /\ q = "q2" => rq["q1"].pc \in {"done", "failed"}
  /\ ReqBegin(q, kind, r, "u1", v, Omitted)

ConcNext ==
  \/ \E k \in {"A", "B"}, d \in {"A", "B"} : MergeInvoke("m1", k, d)
  \/ MergeLoadKeep("m1")
  \/ MergeLoadDup("m1")
  \/ MergeScan("m1")
  \/ MergeFindExisting("m1")
  \/ MergeRehome("m1")
  \/ MergeRecheck("m1")
  \/ MergeOverwrite("m1")
  \/ MergeDelete("m1")
  \/ MergeHide("m1")
  \/ MergeAnnotate("m1")
  \/ MergeTotals("m1")
  \/ MergeCache("m1")
  \/ \E q \in ReqProcs, r \in {"A", "B"}, v \in {1, -1} : ConcBegin(q, "vote", r, v)
  \/ \E q \in ReqProcs, r \in {"A", "B"} : ConcBegin(q, "unvote", r, 0)
  \/ \E q \in ReqProcs : ReqResolve(q)
  \/ \E q \in ReqProcs : ReqPrevVote(q)
  \/ \E q \in ReqProcs : ReqWeight(q)
  \/ \E q \in ReqProcs : ReqUpsert(q)
  \/ \E q \in ReqProcs : ReqRemove(q)
  \/ \E q \in ReqProcs : ReqTotals(q)
  \/ \E q \in ReqProcs : ReqCache(q)
  \/ \E q \in ReqProcs : ReqAdjust(q)
  \/ \E q \in ReqProcs : ReqMyVote(q)

SpecConc == ConcInit /\ [][ConcNext]_vars

\* C1: uniqueness.  The vote ledger never holds two rows for one (reportId, userId).
C1_OneVotePerUser ==
  \A x \in votes : \A y \in votes :
    (x.reportId = y.reportId /\ x.userId = y.userId) => x = y

\* the re-homing write of a merge was refused by the unique index, a vote of the same
\* user having arrived under keep after the merge looked for one
C1_Witness ==
  /\ mg["m1"].pc = "recheck"
  /\ FindOne(votes, mg["m1"].keep, "u1").id # 0
  /\ FindOne(votes, mg["m1"].dup, "u1").id # 0

\* C4: when a merge is done, no vote row it scanned under dup is still under dup.
C4_NoRowLeftUnderDup ==
  \A p \in MergeProcs :
    mg[p].pc = "done" =>
      \A i \in 1..Len(mg[p].dupVotes) :
        ~\E x \in votes : x.id = mg[p].dupVotes[i].id /\ x.reportId = mg[p].dup

\* C30: once a merge is done and dup carries mergedInto, no vote row is under dup in
\* any later state, whatever cast requests arrive after the merge or were in flight
\* while it ran.
C30_MergedDupStaysEmpty ==
  \A p \in MergeProcs :
    (mg[p].pc = "done" /\ reports[mg[p].dup].mergedInto # "") =>
      RowsOf(votes, mg[p].dup) = {}

----------------------------------------------------------------------------
(* Concurrent administrators: two merge requests in flight at once (routes/admin.js
   POST /reports/merge takes no lock), together with the hide and unhide routes *)

\* u2 has voted on A or not, u1 has voted on B or not, u1 has voted on C or not
AdminInit ==
  /\ reports = InitReports
  /\ votes \in {l \in Ledgers({"A", "B", "C"}, Users) :
                  \A x \in l : /\ x.reportId = "A" => x.userId = "u2"
                               /\ x.reportId # "A" => x.userId = "u1"
                               /\ x.vote = 1
                               /\ x.reportId # "B" => x.updatedAt = 1}
  /\ flags = {}
  /\ users = InitUsers
  /\ clock = MaxTime + 1
  /\ mg = [p \in MergeProcs |-> IdleMerge]
  /\ rq = [q \in ReqProcs |-> IdleReq]

\* the first request merges B into A; the second one arrives no earlier
AdminInvoke(p, k, d) ==
  /\ p = "m1" => (k = "A" /\ d = "B")
  /\ p = "m2" => mg["m1"].pc # "idle"
  /\ MergeInvoke(p, k, d)

\* hide and unhide are single writes of status, which no merge step reads: they are
\* taken between merge requests
AdminHide(r) == NoneRunning /\ Hide(r)
AdminUnhide(r) == NoneRunning /\ Unhide(r)

AdminNext ==
  \/ \E p \in MergeProcs, k \in SameTargetIds, d \in SameTargetIds : AdminInvoke(p, k, d)
  \/ \E p \in MergeProcs : MergeLoadKeep(p)
  \/ \E p \in MergeProcs : MergeLoadDup(p)
  \/ \E p \in MergeProcs : MergeScan(p)
  \/ \E p \in MergeProcs : MergeFindExisting(p)
  \/ \E p \in MergeProcs : MergeRehome(p)
  \/ \E p \in MergeProcs : MergeRecheck(p)
  \/ \E p \in MergeProcs : MergeOverwrite(p)
  \/ \E p \in MergeProcs : MergeDelete(p)
  \/ \E p \in MergeProcs : MergeHide(p)
  \/ \E p \in MergeProcs : MergeAnnotate(p)
  \/ \E p \in MergeProcs : MergeTotals(p)
  \/ \E p \in MergeProcs : MergeCache(p)
  \/ \E r \in {"A", "B"} : AdminHide(r)
  \/ \E r \in {"A", "B"} : AdminUnhide(r)

SpecAdmin == AdminInit /\ [][AdminNext]_vars

\* C5: two merges of the same pair have both finished, the two ledgers shared no user
\* when the first began: the keep ledger holds every vote that was under keep or
\* under dup, each once.
C5_DoubleMergeKeepsVotes ==
  LET a == mg["m1"]
      b == mg["m2"]
  IN (/\ a.pc = "done" /\ b.pc = "done"
      /\ a.keep = b.keep /\ a.dup = b.dup
      /\ UsersIn(PreKeep("m1")) \cap UsersIn(PreDup("m1")) = {}) =>
       /\ Content(RowsOf(votes, a.keep)) = Content(PreKeep("m1")) \cup Content(PreDup("m1"))
       /\ Cardinality(RowsOf(votes, a.keep))
            = Cardinality(PreKeep("m1")) + Cardinality(PreDup("m1"))

\* C6: a report whose mergedInto is set has status 'hidden'.
C6_MergedStaysHidden ==
  \A r \in DOMAIN reports :
    reports[r].mergedInto # "" => reports[r].status = "hidden"

\* C7: no merge writes mergedInto = X on its dup report, or adds to X.mergedFrom, at
\* a moment when X.mergedInto is set.
C7_KeepNeverMerged ==
  [][\A p \in MergeProcs :
       (\/ (mg[p].pc = "hide" /\ mg'[p].pc = "annotate")
        \/ (mg[p].pc = "annotate" /\ mg'[p].pc = "totals"))
         => reports[mg[p].keep].mergedInto = ""]_vars

----------------------------------------------------------------------------
(* Two duplicate-flag requests of one user on one report in flight at once, while
   the user's reputation moves (SpecFlags) *)

\* another request rewards or penalises the user as the author of a report:
\* adjustReputation(userId, delta, { max: REP_MAX })
Rewarded(u, d) ==
  /\ users[u] + d \in (InitUsers[u] - MaxDrift)..(InitUsers[u] + MaxDrift)
  /\ users' = adjustReputation(users, u, d, REP_MAX)
  /\ UNCHANGED <<reports, votes, flags, clock, mg, rq>>

FlagsInit ==
  /\ reports = InitReports
  /\ votes = {}
  /\ flags = {}
  /\ users = InitUsers
  /\ clock = 1
  /\ mg = [p \in MergeProcs |-> IdleMerge]
  /\ rq = [q \in ReqProcs |-> IdleReq]

FlagsNext ==
  \/ \E q \in ReqProcs, c \in {Omitted, "", "B"} : ReqBegin(q, "flag", "A", "u1", 0, c)
  \/ \E q \in ReqProcs : ReqBegin(q, "unflag", "A", "u1", 0, Omitted)
  \/ \E q \in ReqProcs : ReqResolve(q)
  \/ \E q \in ReqProcs : ReqFlagBase(q)
  \/ \E q \in ReqProcs : ReqFlagCanon(q)
  \/ \E q \in ReqProcs : ReqFlagExisting(q)
  \/ \E q \in ReqProcs : ReqFlagUpdate(q)
  \/ \E q \in ReqProcs : ReqFlagWeight(q)
  \/ \E q \in ReqProcs : ReqFlagUpsert(q)
  \/ \E q \in ReqProcs : ReqFlagRemove(q)
  \/ \E q \in ReqProcs : ReqFlagTotals(q)
  \/ \E q \in ReqProcs : ReqFlagCache(q)
  \/ \E q \in ReqProcs : ReqMyFlag(q)
  \/ \E q \in ReqProcs : ReqRespond(q)
  \/ Rewarded("u1", REP_DELTA_PER_UPVOTE)

SpecFlags == FlagsInit /\ [][FlagsNext]_vars

\* C11: uniqueness.  The duplicate-flag ledger never holds two rows for one
\* (reportId, userId).
C11_OneFlagPerUser ==
  \A x \in flags : \A y \in flags :
    (x.reportId = y.reportId /\ x.userId = y.userId) => x = y

\* two flagDuplicate calls for the same pair have both found no flag; one has
\* written its row and the other is about to write
C11_Witness ==
  /\ rq["q1"].pc = "fupsert" /\ rq["q1"].existing.id = 0
  /\ rq["q2"].pc = "ftotals" /\ rq["q2"].existing.id = 0 /\ rq["q2"].kind = "flag"
  /\ FindOne(flags, "A", "u1").id # 0

\* C14: weight freeze of flags.  No step changes the weight, the _id or the creation
\* date of a flag row that stays in the ledger, whatever the reputation of the user
\* has become and whichever canonicalReportId a flagDuplicate call passes; a
\* flagDuplicate write that finds no row stores the weight read in that call.
C14_FlagWeightFrozen ==
  [][/\ \A x \in flags : \A y \in flags' :
          (x.reportId = y.reportId /\ x.userId = y.userId) =>
             (y.weight = x.weight /\ y.id = x.id /\ y.createdAt = x.createdAt)
     /\ \A q \in ReqProcs :
          (/\ rq[q].pc = "fupsert" /\ rq'[q].pc = "ftotals"
           /\ FindOne(flags, rq[q].rid, rq[q].uid).id = 0) =>
             FindOne(flags', rq[q].rid, rq[q].uid).weight = rq[q].weight]_vars

\* a flagDuplicate call that saw no flag and read a higher reputation has written
\* onto the row a racing call inserted; another call has changed the candidate of
\* an existing row after the reputation rose
C14_Witness ==
  /\ rq["q1"].pc = "ftotals" /\ rq["q1"].kind = "flag" /\ rq["q1"].existing.id = 0
  /\ rq["q1"].canon = "B"
  /\ rq["q2"].kind = "flag" /\ rq["q2"].pc = "done" /\ rq["q2"].existing.id = 0
  /\ LET x == FindOne(flags, "A", "u1")
     IN x.id # 0 /\ x.weight = DEFAULT_WEIGHT /\ rq["q1"].weight > x.weight
                /\ x.canonicalReportId = "B"

----------------------------------------------------------------------------
(* Two successive vote requests of one user while the user's reputation moves and
   time passes (SpecCasts) *)

\* time passes
Tick ==
  /\ clock <= MaxTime
  /\ clock' = clock + 1
  /\ UNCHANGED <<reports, votes, flags, users, mg, rq>>

CastsInit ==
  /\ reports = InitReports
  /\ votes = {}
  /\ flags = {}
  /\ users = InitUsers
  /\ clock = 1
  /\ mg = [p \in MergeProcs |-> IdleMerge]
  /\ rq = [q \in ReqProcs |-> IdleReq]

\* the second request is sent after the first has been answered
CastsBegin(q, kind, r, u, v) ==
  /\ q = "q2" => rq["q1"].pc \in {"done", "failed"}
  /\ ReqBegin(q, kind, r, u, v, Omitted)

CastsNext ==
  \/ \E q \in ReqProcs, r \in {"A", "B"}, v \in {1, -1} : CastsBegin(q, "vote", r, "u1", v)
  \/ \E q \in ReqProcs, r \in {"A", "B"} : CastsBegin(q, "unvote", r, "u1", 0)
  \/ \E q \in ReqProcs : ReqResolve(q)
  \/ \E q \in ReqProcs : ReqPrevVote(q)
  \/ \E q \in ReqProcs : ReqWeight(q)
  \/ \E q \in ReqProcs : ReqUpsert(q)
  \/ \E q \in ReqProcs : ReqRemove(q)
  \/ \E q \in ReqProcs : ReqTotals(q)
  \/ \E q \in ReqProcs : ReqCache(q)
  \/ \E q \in ReqProcs : ReqAdjust(q)
  \/ \E q \in ReqProcs : ReqMyVote(q)
  \/ \E d \in {1, -1} : Rewarded("u1", d)
  \/ Tick

SpecCasts == CastsInit /\ [][CastsNext]_vars

\* C12: a castVote that reaches its write leaves one row for the pair with the given
\* vote and with weight max(1, the reputation read in that call); when a row was
\* there it is the same row (same _id and createdAt) with vote, weight and updatedAt
\* overwritten, and no row is added.
C12_CastStoresVoteAndWeight ==
  [][\A q \in ReqProcs :
       /\ (rq[q].pc = "weight" /\ rq'[q].pc = "upsert") =>
            /\ rq'[q].rep = users[rq[q].uid]
            /\ rq'[q].weight = (IF rq'[q].rep > DEFAULT_WEIGHT THEN rq'[q].rep
                                ELSE DEFAULT_WEIGHT)
       /\ (rq[q].pc = "upsert" /\ rq'[q].pc = "totals") =>
            LET old == FindOne(votes, rq[q].rid, rq[q].uid)
                new == FindOne(votes', rq[q].rid, rq[q].uid)
            IN /\ new.id # 0
               /\ Cardinality(RowsOf(votes', rq[q].rid)) =
                    Cardinality({x \in RowsOf(votes, rq[q].rid) : x.userId # rq[q].uid}) + 1
               /\ new.vote = rq[q].vote
               /\ new.weight = rq[q].weight
               /\ new.updatedAt = rq[q].now
               /\ old.id # 0 => (new.id = old.id /\ new.createdAt = old.createdAt)
               /\ old.id = 0 => new.createdAt = rq[q].now]_vars

\* a replace, later than the insert, by a user whose reputation has gone below 1:
\* the other value, the minimum weight, the creation date kept
C12_Witness ==
  /\ rq["q1"].pc = "done" /\ rq["q1"].kind = "vote" /\ rq["q1"].weight > DEFAULT_WEIGHT
  /\ rq["q2"].pc = "totals" /\ rq["q2"].kind = "vote" /\ rq["q2"].rid = rq["q1"].rid
  /\ rq["q2"].vote # rq["q1"].vote
  /\ rq["q2"].rep < DEFAULT_WEIGHT
  /\ LET x == FindOne(votes, rq["q2"].rid, "u1")
     IN x.weight = DEFAULT_WEIGHT /\ x.vote = rq["q2"].vote /\ x.createdAt < x.updatedAt

\* the two requests were castVote calls of the same user on the same report, the
\* first answered and the second past its write
TwoCasts ==
  /\ rq["q1"].pc = "done" /\ rq["q1"].kind = "vote"
  /\ rq["q2"].kind = "vote" /\ rq["q2"].rid = rq["q1"].rid /\ rq["q2"].uid = rq["q1"].uid
  /\ rq["q2"].pc \in {"totals", "cache", "adjust", "myvote", "done"}

\* C13 (amended): two successive casts store different weights when the two
\* reputations differ and at least one of them is above 1; two reputations at or
\* below 1 both store the minimum weight 1.
C13_WeightFollowsReputation ==
  TwoCasts =>
    LET first == rq["q1"].weight
        second == FindOne(votes, rq["q2"].rid, rq["q2"].uid).weight
        r1 == rq["q1"].rep
        r2 == rq["q2"].rep
    IN /\ (r1 # r2 /\ (r1 > DEFAULT_WEIGHT \/ r2 > DEFAULT_WEIGHT)) => first # second
       /\ (r1 <= DEFAULT_WEIGHT /\ r2 <= DEFAULT_WEIGHT) =>
            (first = DEFAULT_WEIGHT /\ second = DEFAULT_WEIGHT)

\* the reputation rose above 1 between the two casts
C13_Witness ==
  /\ TwoCasts
  /\ rq["q1"].rep = DEFAULT_WEIGHT /\ rq["q2"].rep > DEFAULT_WEIGHT
  /\ rq["q1"].weight = DEFAULT_WEIGHT
  /\ FindOne(votes, rq["q2"].rid, rq["q2"].uid).weight = rq["q2"].rep

\* C13 as stated: whenever the two reputations differ the two stored weights differ.
C13_AsStated ==
  TwoCasts =>
    (rq["q1"].rep # rq["q2"].rep =>
       rq["q1"].weight # FindOne(votes, rq["q2"].rid, rq["q2"].uid).weight)

----------------------------------------------------------------------------
(* Duplicate-flag requests of one user on one report, one at a time, with every
   form of canonicalReportId a client can send (SpecCanon) *)

\* omitted, empty, blank, a report of the same target (by reportId, padded, by _id),
\* the flagged report itself (by reportId, by _id), a report of another target, an
\* id no report has
CanonInputs == {Omitted, "", "  ", "B", " B ", "0b", "C", "A", "0a", "D", "Z"}

CanonInit ==
  /\ reports = InitReports
  /\ votes = {}
  /\ flags = {}
  /\ users = InitUsers
  /\ clock = 1
  /\ mg = [p \in MergeProcs |-> IdleMerge]
  /\ rq = [q \in ReqProcs |-> IdleReq]

CanonNext ==
  \/ \E c \in CanonInputs : ReqBegin("q1", "flag", "A", "u1", 0, c)
  \/ ReqBegin("q1", "unflag", "A", "u1", 0, Omitted)
  \/ ReqResolve("q1")
  \/ ReqFlagBase("q1")
  \/ ReqFlagCanon("q1")
  \/ ReqFlagExisting("q1")
  \/ ReqFlagUpdate("q1")
  \/ ReqFlagWeight("q1")
  \/ ReqFlagUpsert("q1")
  \/ ReqFlagRemove("q1")
  \/ ReqFlagTotals("q1")
  \/ ReqFlagCache("q1")
  \/ ReqMyFlag("q1")
  \/ ReqRespond("q1")
  \/ Rewarded("u1", REP_DELTA_PER_UPVOTE)
  \/ Tick

SpecCanon == CanonInit /\ [][CanonNext]_vars

\* what a read of the stored canonicalReportId gives: '' for a row without the field
StoredCanonical(x) == IF x.canonicalReportId = Absent THEN "" ELSE x.canonicalReportId

\* C15: the write of flagDuplicate on an existing flag.  Field omitted: the stored
\* canonicalReportId stays.  Empty or blank: it becomes ''.  A valid value: it
\* becomes the reportId of the report that value names.  The value flagDuplicate
\* returns, and the myFlag of the response, are the value stored afterwards.
C15_CanonicalTriState ==
  [][/\ (/\ rq["q1"].pc = "fupdate" /\ rq'["q1"].pc = "ftotals") =>
          LET old == FindOne(flags, "A", "u1")
              new == FindOne(flags', "A", "u1")
              c == rq["q1"].canon
          IN /\ old.id # 0 /\ new.id = old.id
             /\ c = Omitted => new.canonicalReportId = old.canonicalReportId
             /\ c \in {"", "  "} => new.canonicalReportId = ""
             /\ c \in {"B", " B ", "0b"} => new.canonicalReportId = "B"
             /\ c = "C" => new.canonicalReportId = "C"
             /\ c \in CanonInputs \ {"A", "0a", "D", "Z"}
             /\ rq'["q1"].ret = StoredCanonical(new)
     /\ (/\ rq["q1"].pc = "myflag" /\ rq'["q1"].pc = "done" /\ rq["q1"].kind = "flag") =>
          /\ rq'["q1"].myFlag.flagged
          /\ rq'["q1"].myFlag.canonicalReportId = StoredCanonical(FindOne(flags, "A", "u1"))
          /\ rq'["q1"].myFlag.canonicalReportId = rq["q1"].ret]_vars

\* a flag naming C has been re-pointed by the _id of B
C15_Witness ==
  /\ rq["q1"].pc = "ftotals" /\ rq["q1"].kind = "flag"
  /\ rq["q1"].canon = "0b"
  /\ rq["q1"].existing.id # 0
  /\ rq["q1"].existing.canonicalReportId = "C"
  /\ FindOne(flags, "A", "u1").canonicalReportId = "B"
  /\ rq["q1"].ret = "B"

\* C16: a flagDuplicate call whose non-empty canonicalReportId names no report, the
\* flagged report itself, or a report of another target fails with status 400 and
\* leaves the duplicate-flag ledger as it was.
C16_BadCanonicalIsInvalidArgument ==
  [][(/\ rq["q1"].kind = "flag" /\ rq["q1"].canon \in {"A", "0a", "D", "Z"}
      /\ rq["q1"].pc = "fcanon" /\ rq'["q1"].pc # "fcanon") =>
        /\ rq'["q1"].pc = "failed"
        /\ rq'["q1"].status = 400
        /\ flags' = flags]_vars

----------------------------------------------------------------------------
(* A removal and a second request right after it, on ledgers left by earlier votes
   and flags (SpecRemove) *)

\* the flag a flagDuplicate call of user u on report r at time 1 has stored
FlagRow(r, u, c) ==
  [id |-> (Rank(r) - 1) * Cardinality(Users) + URank(u), reportId |-> r, userId |-> u,
   canonicalReportId |-> c, weight |-> WeightOf(InitUsers[u]), createdAt |-> 1,
   updatedAt |-> 1]

FlagLedgers == SUBSET {FlagRow("A", "u1", "B"), FlagRow("A", "u2", ""), FlagRow("B", "u1", Absent)}

\* the reports with the aggregate blocks the routes have cached for these ledgers
CachedReports(vs, fs) ==
  [r \in ReportIds |->
     [InitReports[r] EXCEPT
        !.votes = IF RowsOf(vs, r) # {}
                  THEN VotesBlock(normalizeTotals(getTotalVotes(vs, r))) ELSE @,
        !.duplicateFlags = IF RowsOf(fs, r) # {}
                           THEN DupBlock(normalizeDuplicateTotals(getDuplicateTotals(fs, r)))
                           ELSE @]]

RemoveInit ==
  /\ votes \in {l \in Ledgers({"A", "B"}, Users) : \A x \in l : x.vote = 1 /\ x.updatedAt = 1}
  /\ flags \in FlagLedgers
  /\ reports = CachedReports(votes, flags)
  /\ users = InitUsers
  /\ clock = MaxTime + 1
  /\ mg = [p \in MergeProcs |-> IdleMerge]
  /\ rq = [q \in ReqProcs |-> IdleReq]

\* the second request is sent when the first has been answered
RemoveBegin(q, kind, r, u) ==
  /\ q = "q2" => rq["q1"].pc \in {"done", "failed"}
  /\ ReqBegin(q, kind, r, u, 0, Omitted)

RemoveNext ==
  \/ \E q \in ReqProcs, r \in {"A", "B"}, u \in Users : RemoveBegin(q, "unvote", r, u)
  \/ \E q \in ReqProcs, r \in {"A", "B"}, u \in Users : RemoveBegin(q, "unflag", r, u)
  \/ \E q \in ReqProcs : ReqResolve(q)
  \/ \E q \in ReqProcs : ReqPrevVote(q)
  \/ \E q \in ReqProcs : ReqRemove(q)
  \/ \E q \in ReqProcs : ReqTotals(q)
  \/ \E q \in ReqProcs : ReqCache(q)
  \/ \E q \in ReqProcs : ReqAdjust(q)
  \/ \E q \in ReqProcs : ReqMyVote(q)
  \/ \E q \in ReqProcs : ReqFlagRemove(q)
  \/ \E q \in ReqProcs : ReqFlagTotals(q)
  \/ \E q \in ReqProcs : ReqFlagCache(q)
  \/ \E q \in ReqProcs : ReqMyFlag(q)

SpecRemove == RemoveInit /\ [][RemoveNext]_vars

\* q2 repeats the request q1 has been answered
Repeats ==
  /\ rq["q1"].pc = "done"
  /\ rq["q2"].kind = rq["q1"].kind /\ rq["q2"].rid = rq["q1"].rid
  /\ rq["q2"].uid = rq["q1"].uid

\* C17: removeVote and removeDuplicateFlag go through whether or not the row is there;
\* they take away the row of the pair and no other row of either ledger; the same
\* call made again right after changes nothing and is answered without error.
C17_RemovalIdempotent ==
  [][\A q \in ReqProcs :
       /\ rq[q].pc = "remove" =>
            /\ rq'[q].pc = "totals"
            /\ votes' = {x \in votes : ~(x.reportId = rq[q].rid /\ x.userId = rq[q].uid)}
            /\ flags' = flags
            /\ (q = "q2" /\ Repeats) => votes' = votes
       /\ rq[q].pc = "fremove" =>
            /\ rq'[q].pc = "ftotals"
            /\ flags' = {x \in flags : ~(x.reportId = rq[q].rid /\ x.userId = rq[q].uid)}
            /\ votes' = votes
            /\ (q = "q2" /\ Repeats) => flags' = flags
       /\ (q = "q2" /\ Repeats /\ rq[q].pc \notin {"idle", "done"}) => rq'[q].pc # "failed"]_vars

\* the vote was removed by the first request, rows of the other user and of the
\* other report are in both ledgers, and the repeated request has been answered
C17_Witness ==
  /\ Repeats /\ rq["q1"].kind = "unvote" /\ rq["q1"].prevVote # 0
  /\ rq["q2"].pc = "done" /\ rq["q2"].prevVote = 0
  /\ rq["q1"].rid = "A" /\ rq["q1"].uid = "u1"
  /\ FindOne(votes, "A", "u2").id # 0 /\ FindOne(votes, "B", "u1").id # 0
  /\ FindOne(flags, "A", "u1").id # 0

----------------------------------------------------------------------------
(* Two vote requests in flight at once on two reports of one author, whose
   reputation both adjust (SpecRep) *)

\* the author u2 starts near the lower or near the upper end of the range
StartReps == {1, REP_MAX - 1}

RepInit ==
  /\ reports = InitReports
  /\ votes \in Ledgers({"B", "C"}, {"u1"})
  /\ flags = {}
  /\ users \in {[InitUsers EXCEPT !["u2"] = r] : r \in StartReps}
  /\ clock = MaxTime + 1
  /\ mg = [p \in MergeProcs |-> IdleMerge]
  /\ rq = [q \in ReqProcs |-> IdleReq]

\* q1 serves a request on B, q2 one on C
RepBegin(q, kind, v) == ReqBegin(q, kind, IF q = "q1" THEN "B" ELSE "C", "u1", v, Omitted)

RepNext ==
  \/ \E q \in ReqProcs, v \in {1, -1} : RepBegin(q, "vote", v)
  \/ \E q \in ReqProcs : RepBegin(q, "unvote", 0)
  \/ \E q \in ReqProcs : ReqResolve(q)
  \/ \E q \in ReqProcs : ReqPrevVote(q)
  \/ \E q \in ReqProcs : ReqWeight(q)
  \/ \E q \in ReqProcs : ReqUpsert(q)
  \/ \E q \in ReqProcs : ReqRemove(q)
  \/ \E q \in ReqProcs : ReqTotals(q)
  \/ \E q \in ReqProcs : ReqCache(q)
  \/ \E q \in ReqProcs : ReqAdjust(q)
  \/ \E q \in ReqProcs : ReqAdjustThrows(q)
  \/ \E q \in ReqProcs : ReqMyVote(q)

SpecRep == RepInit /\ [][RepNext]_vars

\* min(max, max(0, x))
Clamp(x, max) == IF x > max THEN max ELSE IF x < 0 THEN 0 ELSE x

\* the reputation of u2 when the run started: the two start values are far apart
StartRep(us) == IF us["u2"] < REP_MAX \div 2 THEN 1 ELSE REP_MAX - 1

\* the request has made its adjustReputation call
Adjusted(m) ==
  m.pc \in {"myvote", "done"} /\ m.author = "u2" /\ RepDelta(m) # 0 /\ ~m.adjustFailed

\* C18: every adjustReputation call replaces the stored reputation r by
\* min(max, max(0, r + delta)) in one step and returns that value; the stored value
\* stays within 0..max; after two concurrent calls it is what the two calls give
\* when applied one after the other in one of the two orders.
C18_AdjustAtomic ==
  [][/\ \A q \in ReqProcs :
          (rq[q].pc = "adjust" /\ rq'[q].pc = "myvote" /\ ~rq'[q].adjustFailed) =>
             /\ users'["u2"] = Clamp(users["u2"] + RepDelta(rq[q]), REP_MAX)
             /\ users'["u1"] = users["u1"]
             /\ rq'[q].updated = users'["u2"]
     /\ users'["u2"] >= 0 /\ users'["u2"] <= REP_MAX
     /\ (Adjusted(rq'["q1"]) /\ Adjusted(rq'["q2"])) =>
          LET r0 == StartRep(users')
              d1 == RepDelta(rq'["q1"])
              d2 == RepDelta(rq'["q2"])
          IN users'["u2"] \in {Clamp(Clamp(r0 + d1, REP_MAX) + d2, REP_MAX),
                               Clamp(Clamp(r0 + d2, REP_MAX) + d1, REP_MAX)}]_vars

\* both calls have been made while both requests were in flight, and a bound of the
\* range has cut one of them short
C18_Witness ==
  /\ Adjusted(rq["q1"]) /\ Adjusted(rq["q2"])
  /\ rq["q1"].pc = "myvote" /\ rq["q2"].pc = "myvote"
  /\ users["u2"] # StartRep(users) + RepDelta(rq["q1"]) + RepDelta(rq["q2"])
  /\ rq["q1"].updated # rq["q2"].updated

\* C19: in the vote-cast and vote-remove routes an adjustReputation call that throws
\* changes neither ledger nor the cached totals and the handler goes on to its
\* response; the request is answered without error, with the vote row as castVote
\* wrote it (or gone, as removeVote left it).
C19_AdjustBestEffort ==
  [][\A q \in ReqProcs :
       /\ (rq[q].pc = "adjust" /\ rq'[q].pc # "adjust") =>
            /\ rq'[q].pc = "myvote"
            /\ votes' = votes /\ reports' = reports /\ flags' = flags
            /\ rq'[q].totals = rq[q].totals
       /\ (rq[q].pc = "myvote" /\ rq'[q].pc # "myvote") =>
            /\ rq'[q].pc = "done" /\ rq'[q].status = 0
            /\ votes' = votes /\ reports' = reports
            /\ rq'[q].myVote = (IF rq[q].kind = "vote" THEN rq[q].vote ELSE 0)
            /\ FindOne(votes, rq[q].rid, rq[q].uid).vote = rq'[q].myVote
            /\ reports[rq[q].rid].votes = VotesBlock(rq[q].totals)]_vars

\* a vote request and a vote-remove request whose adjustments both failed have been
\* answered
C19_Witness ==
  /\ rq["q1"].pc = "done" /\ rq["q1"].adjustFailed /\ rq["q1"].kind = "vote"
  /\ rq["q2"].pc = "done" /\ rq["q2"].adjustFailed /\ rq["q2"].kind = "unvote"
  /\ FindOne(votes, "B", "u1").vote = rq["q1"].vote
  /\ FindOne(votes, "C", "u1").id = 0

---------------------------------------------------------------------------
(* The duplicate-flag aggregate of one report that six users have flagged, naming up
   to six candidates (SpecTotals) *)

\* the users who flagged report "D", and the reputation each had when flagging
Flaggers == {"u1", "u2", "u3", "u4", "u5", "u6"}
FlaggerRep(u) == CASE u \in {"u1", "u2", "u3"} -> DEFAULT_WEIGHT
                   [] u \in {"u4", "u5"} -> 2 * DEFAULT_WEIGHT
                   [] OTHER -> 5 * DEFAULT_WEIGHT
FlaggerRank(u) == CASE u = "u1" -> 1 [] u = "u2" -> 2 [] u = "u3" -> 3 [] u = "u4" -> 4
                    [] u = "u5" -> 5 [] OTHER -> 6
\* the reports on the target of "D" a flag may name
CandidateIds == {"E", "F", "G", "H", "I", "J"}
\* what a flagger did: nothing ("<none>"), a flag without canonicalReportId, a flag
\* with '', a flag naming a candidate others may name too, a flag naming a candidate
\* no one else names
Opinions(u) == CASE u = "u1" -> {"<none>", "E", "I"}
                 [] u = "u2" -> {Absent, "F", "I"}
                 [] u = "u3" -> {"", "E", "G"}
                 [] u = "u4" -> {"<none>", "E", "H"}
                 [] u = "u5" -> {"E", "I"}
                 [] OTHER -> {"<none>", "", "J"}

\* the flags flagDuplicate calls at time 1 have stored under "D"
TotalsLedger(f) ==
  {[id |-> FlaggerRank(u), reportId |-> "D", userId |-> u, canonicalReportId |-> f[u],
    weight |-> WeightOf(FlaggerRep(u)), createdAt |-> 1, updatedAt |-> 1] :
     u \in {x \in Flaggers : f[x] # "<none>"}}

TotalsInit ==
  /\ flags \in {TotalsLedger(f) :
                 f \in {g \in [Flaggers -> {"<none>", Absent, ""} \cup CandidateIds] :
                          \A u \in Flaggers : g[u] \in Opinions(u)}}
  /\ votes = {}
  /\ reports = [r \in {"D"} \cup CandidateIds |->
                  IF r = "D" /\ flags # {}
                  THEN [NewReport(r, "u1") EXCEPT !.duplicateFlags =
                          DupBlock(normalizeDuplicateTotals(getDuplicateTotals(flags, r)))]
                  ELSE NewReport(r, "u1")]
  /\ users = [u \in Flaggers |-> FlaggerRep(u)]
  /\ clock = 2
  /\ mg = [p \in MergeProcs |-> IdleMerge]
  /\ rq = [q \in ReqProcs |-> IdleReq]

TotalsNext ==
  \/ \E c \in {Omitted, "", "E", "J"} : ReqBegin("q1", "flag", "D", "u6", 0, c)
  \/ ReqBegin("q1", "unflag", "D", "u6", 0, Omitted)
  \/ ReqResolve("q1")
  \/ ReqFlagBase("q1")
  \/ ReqFlagCanon("q1")
  \/ ReqFlagExisting("q1")
  \/ ReqFlagUpdate("q1")
  \/ ReqFlagWeight("q1")
  \/ ReqFlagUpsert("q1")
  \/ ReqFlagRemove("q1")
  \/ ReqFlagTotals("q1")
  \/ ReqFlagCache("q1")
  \/ ReqMyFlag("q1")
  \/ ReqRespond("q1")

SpecTotals == TotalsInit /\ [][TotalsNext]_vars

\* the candidates the flags of report r name
Named(r) == {x.canonicalReportId : x \in RowsOf(flags, r)} \ {Absent, ""}
\* the flaggers of r naming c
Naming(r, c) == {u \in Flaggers : FindOne(flags, r, u).id # 0
                                   /\ FindOne(flags, r, u).canonicalReportId = c}
\* the weight of the flag of u on r
FlagWeight(r, u) == IF FindOne(flags, r, u).id # 0 THEN FindOne(flags, r, u).weight ELSE 0
\* the weight of the flags on r that name c
NamingWeight(r, c) ==
  (IF "u1" \in Naming(r, c) THEN FlagWeight(r, "u1") ELSE 0)
  + (IF "u2" \in Naming(r, c) THEN FlagWeight(r, "u2") ELSE 0)
  + (IF "u3" \in Naming(r, c) THEN FlagWeight(r, "u3") ELSE 0)
  + (IF "u4" \in Naming(r, c) THEN FlagWeight(r, "u4") ELSE 0)
  + (IF "u5" \in Naming(r, c) THEN FlagWeight(r, "u5") ELSE 0)
  + (IF "u6" \in Naming(r, c) THEN FlagWeight(r, "u6") ELSE 0)
\* candidate c ranks strictly above candidate e
Above(r, c, e) ==
  \/ NamingWeight(r, c) > NamingWeight(r, e)
  \/ /\ NamingWeight(r, c) = NamingWeight(r, e)
     /\ Cardinality(Naming(r, c)) > Cardinality(Naming(r, e))
  \/ /\ NamingWeight(r, c) = NamingWeight(r, e)
     /\ Cardinality(Naming(r, c)) = Cardinality(Naming(r, e))
     /\ Rank(c) < Rank(e)

\* the totals t are those the flags of report r call for
TotalsAsSpecified(t, r) ==
  LET list == t.candidates
      listed == {list[i].canonicalReportId : i \in 1..Len(list)}
  IN /\ t.flagCount = Cardinality({u \in Flaggers : FindOne(flags, r, u).id # 0})
     /\ t.weightTotal = FlagWeight(r, "u1") + FlagWeight(r, "u2") + FlagWeight(r, "u3")
                        + FlagWeight(r, "u4") + FlagWeight(r, "u5") + FlagWeight(r, "u6")
     /\ Len(list) = Min(MAX_CANDIDATES, Cardinality(Named(r)))
     /\ listed \subseteq Named(r)
     /\ \A i \in 1..Len(list) :
          /\ list[i].count = Cardinality(Naming(r, list[i].canonicalReportId))
          /\ list[i].weight = NamingWeight(r, list[i].canonicalReportId)
     /\ \A i, j \in 1..Len(list) :
          i < j => Above(r, list[i].canonicalReportId, list[j].canonicalReportId)
     /\ \A c \in Named(r) \ listed : \A e \in listed : Above(r, e, c)
     /\ IF Len(list) > 0
        THEN /\ t.topCandidateReportId = list[1].canonicalReportId
             /\ t.topCandidateCount = list[1].count
             /\ t.topCandidateWeight = list[1].weight
        ELSE /\ t.topCandidateReportId = ""
             /\ t.topCandidateCount = 0
             /\ t.topCandidateWeight = 0

\* C21: getDuplicateTotals.  For every content of the flag ledger, flagCount and
\* weightTotal are taken over all flags of the report (those without a canonical
\* opinion included); candidates holds one entry for each non-empty
\* canonicalReportId with the count and the summed weight of its flags, ordered by
\* weight descending, then count descending, then id ascending, and cut to the first
\* MAX_CANDIDATES = 5; the topCandidate fields are the first entry, or '', 0, 0.  The
\* totals a request has just read are these.
C21_DuplicateTotals ==
  /\ TotalsAsSpecified(getDuplicateTotals(flags, "D"), "D")
  /\ rq["q1"].pc = "fcache" => TotalsAsSpecified(rq["q1"].dtotals, "D")

\* six flags name six candidates and a request has read the totals: five candidates
\* are returned, "J" (one flag of weight 5) first
C21_Witness ==
  /\ rq["q1"].pc = "fcache"
  /\ Cardinality(Named("D")) = 6
  /\ Len(rq["q1"].dtotals.candidates) = MAX_CANDIDATES
  /\ rq["q1"].dtotals.topCandidateReportId = "J"
  /\ rq["q1"].dtotals.topCandidateWeight = 5 * DEFAULT_WEIGHT
  /\ rq["q1"].dtotals.flagCount = 6

---------------------------------------------------------------------------
(* Two users vote on one report at the same time (SpecRace) *)

\* q1 serves user "u1" and q2 serves user "u2", both on report "A"
RaceUser(q) == IF q = "q1" THEN "u1" ELSE "u2"

RaceNext ==
  \/ \E q \in ReqProcs, v \in {1, -1} : ReqBegin(q, "vote", "A", RaceUser(q), v, Omitted)
  \/ \E q \in ReqProcs : ReqBegin(q, "unvote", "A", RaceUser(q), 0, Omitted)
  \/ \E q \in ReqProcs : ReqResolve(q)
  \/ \E q \in ReqProcs : ReqPrevVote(q)
  \/ \E q \in ReqProcs : ReqWeight(q)
  \/ \E q \in ReqProcs : ReqUpsert(q)
  \/ \E q \in ReqProcs : ReqRemove(q)
  \/ \E q \in ReqProcs : ReqTotals(q)
  \/ \E q \in ReqProcs : ReqCache(q)
  \/ \E q \in ReqProcs : ReqAdjust(q)
  \/ \E q \in ReqProcs : ReqMyVote(q)
  \/ \E q \in ReqProcs : ReqRespond(q)

SpecRace == RoutesInit /\ [][RaceNext]_vars

\* C24: when all concurrent vote requests on a report have completed, the votes block
\* cached on the report equals the totals recomputed from the vote ledger.
C24_CacheMatchesAfterRace ==
  (Quiet("q1") /\ Quiet("q2")) =>
    reports["A"].votes = VotesBlock(normalizeTotals(getTotalVotes(votes, "A")))

---------------------------------------------------------------------------
(* Merges one after the other on reports whose cached votes blocks are those the vote
   routes left (SpecMergeCache) *)

MergeCacheInit ==
  /\ votes \in {l \in Ledgers({"A", "B"}, Users) :
                  \A x \in l : x.userId = "u2" =>
                     /\ x.vote = (IF x.reportId = "A" THEN 1 ELSE -1)
                     /\ x.updatedAt = 1}
  /\ reports = CachedReports(votes, {})
  /\ flags = {}
  /\ users = InitUsers
  /\ clock = MaxTime + 1
  /\ mg = [p \in MergeProcs |-> IdleMerge]
  /\ rq = [q \in ReqProcs |-> IdleReq]

MergeCacheNext ==
  \/ \E p \in MergeProcs, k \in SameTargetIds, d \in SameTargetIds : SeqInvoke(p, k, d)
  \/ \E p \in MergeProcs : MergeLoadKeep(p)
  \/ \E p \in MergeProcs : MergeLoadDup(p)
  \/ \E p \in MergeProcs : MergeScan(p)
  \/ \E p \in MergeProcs : MergeFindExisting(p)
  \/ \E p \in MergeProcs : MergeRehome(p)
  \/ \E p \in MergeProcs : MergeOverwrite(p)
  \/ \E p \in MergeProcs : MergeDelete(p)
  \/ \E p \in MergeProcs : MergeHide(p)
  \/ \E p \in MergeProcs : MergeAnnotate(p)
  \/ \E p \in MergeProcs : MergeTotals(p)
  \/ \E p \in MergeProcs : MergeCache(p)

SpecMergeCache == MergeCacheInit /\ [][MergeCacheNext]_vars

\* C25: after a successful merge with no concurrent writer, the votes block cached on
\* keep and the one cached on dup each equal the totals recomputed from that report's
\* vote ledger, and the totals of the merge summary equal getTotalVotes(keep).
C25_CachesMatchAfterMerge ==
  \A p \in MergeProcs :
    (mg[p].pc = "done" /\ Latest(p)) =>
      /\ \A r \in {mg[p].keep, mg[p].dup} :
           reports[r].votes = VotesBlock(getTotalVotes(votes, r))
      /\ mg[p].totals = getTotalVotes(votes, mg[p].keep)

---------------------------------------------------------------------------
(* Two first votes, or two first flags, of one user on one report at the same time,
   with an upsert that the storage layer runs as a lookup followed by an insert
   (SpecUpsertRace) *)

\* updateOne(..., { upsert: true }), first half: the lookup by { reportId, userId }.
\* A document that is found is updated at once; otherwise the insert follows.
ReqUpsertMatch(q) ==
  /\ rq[q].pc = "upsert"
  /\ IF FindOne(votes, rq[q].rid, rq[q].uid).id # 0
     THEN /\ votes' = CastUpserted(votes, rq[q].rid, rq[q].uid, rq[q].vote, rq[q].weight,
                                   rq[q].now)
          /\ rq' = [rq EXCEPT ![q].pc = "totals"]
     ELSE /\ votes' = votes
          /\ rq' = [rq EXCEPT ![q].pc = "insert"]
  /\ UNCHANGED <<reports, flags, users, clock, mg>>

\* second half: the insert.  When another upsert has inserted the key meanwhile the
\* unique index refuses it, and the storage layer either runs the upsert again as an
\* update or reports E11000 to the caller; castVote has no catch, the route passes
\* the error to next(err).
ReqUpsertInsert(q) ==
  /\ rq[q].pc = "insert"
  /\ IF FindOne(votes, rq[q].rid, rq[q].uid).id = 0
     THEN /\ votes' = CastUpserted(votes, rq[q].rid, rq[q].uid, rq[q].vote, rq[q].weight,
                                   rq[q].now)
          /\ rq' = [rq EXCEPT ![q].pc = "totals"]
     ELSE \/ /\ votes' = CastUpserted(votes, rq[q].rid, rq[q].uid, rq[q].vote,
                                      rq[q].weight, rq[q].now)
             /\ rq' = [rq EXCEPT ![q].pc = "totals"]
          \/ /\ votes' = votes
             /\ rq' = [rq EXCEPT ![q].pc = "failed", ![q].status = 500,
                                 ![q].errCode = 11000]
  /\ UNCHANGED <<reports, flags, users, clock, mg>>

\* the same two halves for the upsert of flagDuplicate
ReqFlagUpsertMatch(q) ==
  /\ rq[q].pc = "fupsert"
  /\ IF FindOne(flags, rq[q].rid, rq[q].uid).id # 0
     THEN /\ flags' = FlagUpserted(flags, rq[q].rid, rq[q].uid, rq[q].canon # Omitted,
                                   rq[q].canonStable, rq[q].weight, rq[q].now)
          /\ rq' = [rq EXCEPT ![q].pc = "ftotals", ![q].ret = rq[q].canonStable]
     ELSE /\ flags' = flags
          /\ rq' = [rq EXCEPT ![q].pc = "finsert"]
  /\ UNCHANGED <<reports, votes, users, clock, mg>>

ReqFlagUpsertInsert(q) ==
  /\ rq[q].pc = "finsert"
  /\ IF FindOne(flags, rq[q].rid, rq[q].uid).id = 0
     THEN /\ flags' = FlagUpserted(flags, rq[q].rid, rq[q].uid, rq[q].canon # Omitted,
                                   rq[q].canonStable, rq[q].weight, rq[q].now)
          /\ rq' = [rq EXCEPT ![q].pc = "ftotals", ![q].ret = rq[q].canonStable]
     ELSE \/ /\ flags' = FlagUpserted(flags, rq[q].rid, rq[q].uid, rq[q].canon # Omitted,
                                      rq[q].canonStable, rq[q].weight, rq[q].now)
             /\ rq' = [rq EXCEPT ![q].pc = "ftotals", ![q].ret = rq[q].canonStable]
          \/ /\ flags' = flags
             /\ rq' = [rq EXCEPT ![q].pc = "failed", ![q].status = 500,
                                 ![q].errCode = 11000]
  /\ UNCHANGED <<reports, votes, users, clock, mg>>

UpsertRaceNext ==
  \/ \E q \in ReqProcs, v \in {1, -1} : ReqBegin(q, "vote", "A", "u1", v, Omitted)
  \/ \E q \in ReqProcs, c \in {Omitted, "B"} : ReqBegin(q, "flag", "A", "u1", 0, c)
  \/ \E q \in ReqProcs : ReqResolve(q)
  \/ \E q \in ReqProcs : ReqPrevVote(q)
  \/ \E q \in ReqProcs : ReqWeight(q)
  \/ \E q \in ReqProcs : ReqUpsertMatch(q)
  \/ \E q \in ReqProcs : ReqUpsertInsert(q)
  \/ \E q \in ReqProcs : ReqTotals(q)
  \/ \E q \in ReqProcs : ReqCache(q)
  \/ \E q \in ReqProcs : ReqMyVote(q)
  \/ \E q \in ReqProcs : ReqFlagBase(q)
  \/ \E q \in ReqProcs : ReqFlagCanon(q)
  \/ \E q \in ReqProcs : ReqFlagExisting(q)
  \/ \E q \in ReqProcs : ReqFlagUpdate(q)
  \/ \E q \in ReqProcs : ReqFlagWeight(q)
  \/ \E q \in ReqProcs : ReqFlagUpsertMatch(q)
  \/ \E q \in ReqProcs : ReqFlagUpsertInsert(q)
  \/ \E q \in ReqProcs : ReqFlagTotals(q)
  \/ \E q \in ReqProcs : ReqFlagCache(q)
  \/ \E q \in ReqProcs : ReqMyFlag(q)

SpecUpsertRace == RoutesInit /\ [][UpsertRaceNext]_vars

\* C26: a uniqueness violation that the storage layer reports to the losing one of
\* two concurrent upserts of the same (reportId, userId) is not surfaced to the
\* caller as a failure: the call completes.
C26_UpsertRaceNotSurfaced ==
  \A q \in ReqProcs : rq[q].errCode = 11000 => rq[q].pc # "failed"

---------------------------------------------------------------------------
(* The requests of one voter on a report of another author and on the voter's own
   report, two of them in flight at once (SpecDelta) *)

\* q1 serves requests on "A" and on "B", one after the other; q2 serves one on "B"
DeltaTargets(q) == IF q = "q1" THEN {"A", "B"} ELSE {"B"}

DeltaNext ==
  \/ \E q \in ReqProcs, v \in {1, -1} : \E r \in DeltaTargets(q) :
        ReqBegin(q, "vote", r, "u1", v, Omitted)
  \/ \E q \in ReqProcs : \E r \in DeltaTargets(q) :
        ReqBegin(q, "unvote", r, "u1", 0, Omitted)
  \/ \E q \in ReqProcs : ReqResolve(q)
  \/ \E q \in ReqProcs : ReqPrevVote(q)
  \/ \E q \in ReqProcs : ReqWeight(q)
  \/ \E q \in ReqProcs : ReqUpsert(q)
  \/ \E q \in ReqProcs : ReqRemove(q)
  \/ \E q \in ReqProcs : ReqTotals(q)
  \/ \E q \in ReqProcs : ReqCache(q)
  \/ \E q \in ReqProcs : ReqAdjust(q)
  \/ \E q \in ReqProcs : ReqMyVote(q)
  \/ ReqRespond("q1")

SpecDelta == RoutesInit /\ [][DeltaNext]_vars

\* C29: the reputation the author of "B" has gained or lost through the votes of "u1"
\* is 0.05 times the vote "u1" now has on "B" (1 unit for +1, -1 unit for -1, 0 for
\* no vote) whenever no request of "u1" is in flight; the votes of "u1" on the own
\* report "A" change nobody's reputation.
C29_ReputationFollowsVote ==
  /\ (Quiet("q1") /\ Quiet("q2")) =>
        users["u2"] - InitUsers["u2"]
          = REP_DELTA_PER_UPVOTE * getUserVoteForReport(votes, "B", "u1")
  /\ users["u1"] = InitUsers["u1"]

=============================================================================
